---- MODULE Spec2Model ----
(***************************************************************************)
(* A model of kkowa/proxy-lib: the forward HTTP proxy engine               *)
(* (src/proxy/mod.rs), its flow context (src/proxy/flow.rs), the handler   *)
(* contract (src/proxy/handler.rs), the credentials extractor and the      *)
(* built-in authenticators (src/auth), and the hop-by-hop header hygiene   *)
(* (src/http/mod.rs).                                                      *)
(*                                                                         *)
(* Strings are sequences of one-character strings, so that splitting,      *)
(* lower-casing and base64 decoding are computed as the code computes      *)
(* them.                                                                   *)
(***************************************************************************)
EXTENDS Integers, Sequences, FiniteSets, TLC

\* ------------------------------------------------------------------ bounds

\* Connections accepted by one Proxy in the concurrent specification.
MaxConns == 2
\* Requests served (over all connections) in one behaviour.
MaxRequests == 2
\* Length of the configured `auths` list.
MaxAuths == 2
\* Length of the configured `handlers` list.
MaxHandlers == 2
\* Length of the decoded credentials text handed to an authenticator.
MaxText == 4
\* Length of a Proxy-Authorization header value handed to the extraction.
MaxValue == 4
\* Number of entries of a header map handed to remove_hop_by_hop_headers.
MaxHeaders == 3

\* ----------------------------------------------------------------- strings

\* Option: None, or Some(x).
None == <<>>
Some(x) == <<x>>

Upper ==
    <<"A","B","C","D","E","F","G","H","I","J","K","L","M",
      "N","O","P","Q","R","S","T","U","V","W","X","Y","Z">>

Lower ==
    <<"a","b","c","d","e","f","g","h","i","j","k","l","m",
      "n","o","p","q","r","s","t","u","v","w","x","y","z">>

Digits == <<"0","1","2","3","4","5","6","7","8","9">>

\* The printable ASCII characters, code 32 (space) to code 126 (~), in order
\* (code 96, the grave accent, is written "<grave>").
Printable ==
    <<" ","!","\"","#","$","%","&","'","(",")","*","+",",","-",".","/">>
    \o Digits \o <<":",";","<","=",">","?","@">> \o Upper
    \o <<"[","\\","]","^","_","<grave>">> \o Lower \o <<"{","|","}","~">>

\* A byte of 0x80..0xFF in a header value (obs-text), and U+FFFD, the
\* replacement character of String::from_utf8_lossy.
ObsText == "<0xFF>"
Replacement == "<U+FFFD>"
Tab == "\t"

IndexOf(ch, seq) == CHOOSE k \in 1..Len(seq) : seq[k] = ch

InSeq(ch, seq) == \E k \in 1..Len(seq) : seq[k] = ch

\* str::to_lowercase, character by character.
to_lower_char(ch) == IF InSeq(ch, Upper) THEN Lower[IndexOf(ch, Upper)] ELSE ch

to_lowercase(s) == [k \in 1..Len(s) |-> to_lower_char(s[k])]

\* char::is_whitespace for the characters of the model.
is_whitespace(ch) == ch \in {" ", Tab}

RECURSIVE SplitWs(_, _, _)
\* str::split_whitespace: the maximal runs of non-whitespace characters.
\* `cur` is the token being read, `acc` the tokens read so far.
SplitWs(s, cur, acc) ==
    IF s = <<>>
    THEN IF cur = <<>> THEN acc ELSE Append(acc, cur)
    ELSE IF is_whitespace(Head(s))
         THEN SplitWs(Tail(s), <<>>, IF cur = <<>> THEN acc ELSE Append(acc, cur))
         ELSE SplitWs(Tail(s), Append(cur, Head(s)), acc)

split_whitespace(s) == SplitWs(s, <<>>, <<>>)

RECURSIVE SplitOn(_, _, _, _)
\* str::split(sep): every field between separators, empty fields kept.
SplitOn(s, sep, cur, acc) ==
    IF s = <<>>
    THEN Append(acc, cur)
    ELSE IF Head(s) = sep
         THEN SplitOn(Tail(s), sep, <<>>, Append(acc, cur))
         ELSE SplitOn(Tail(s), sep, Append(cur, Head(s)), acc)

split(s, sep) == SplitOn(s, sep, <<>>, <<>>)

\* str::split_terminator(sep): as split, but the separator terminates a
\* field, so a trailing empty field is not produced.
split_terminator(s, sep) ==
    LET v == split(s, sep)
    IN  IF v[Len(v)] = <<>> THEN SubSeq(v, 1, Len(v) - 1) ELSE v

\* ------------------------------------------------------------------ base64

\* The standard base64 alphabet; a character's value is its index minus one.
B64Alphabet == Upper \o Lower \o Digits \o <<"+","/">>

B64Val(ch) == IndexOf(ch, B64Alphabet) - 1

\* The input without its trailing padding (at most two "=").
StripPad(s) ==
    IF Len(s) >= 2 /\ s[Len(s)] = "=" /\ s[Len(s) - 1] = "="
    THEN SubSeq(s, 1, Len(s) - 2)
    ELSE IF Len(s) >= 1 /\ s[Len(s)] = "="
         THEN SubSeq(s, 1, Len(s) - 1)
         ELSE s

\* base64::decode succeeds: canonical padding, alphabet characters only, and
\* no non-zero bits after the last whole byte.
b64_valid(s) ==
    LET body == StripPad(s)
        n == Len(body)
    IN  /\ Len(s) % 4 = 0
        /\ \A k \in 1..n : InSeq(body[k], B64Alphabet)
        /\ (n % 4 = 2) => (B64Val(body[n]) % 16 = 0)
        /\ (n % 4 = 3) => (B64Val(body[n]) % 4 = 0)

RECURSIVE B64Bytes(_)
\* The bytes of an unpadded base64 body: four characters carry three bytes.
B64Bytes(body) ==
    LET v(k) == B64Val(body[k])
        b1 == v(1) * 4 + (v(2) \div 16)
        b2 == (v(2) % 16) * 16 + (v(3) \div 4)
        b3 == (v(3) % 4) * 64 + v(4)
    IN  IF Len(body) >= 4
        THEN <<b1, b2, b3>> \o B64Bytes(SubSeq(body, 5, Len(body)))
        ELSE IF Len(body) = 3 THEN <<b1, b2>>
        ELSE IF Len(body) = 2 THEN <<b1>>
        ELSE <<>>

\* String::from_utf8_lossy on the decoded bytes: printable ASCII is kept, a
\* byte that is not part of valid UTF-8 is shown as the replacement
\* character. (Control characters and multi-byte sequences, which stay what
\* they are, do not occur in the decoded credentials of the inputs.)
from_utf8_lossy(bytes) ==
    [k \in 1..Len(bytes) |->
        IF bytes[k] >= 32 /\ bytes[k] <= 126
        THEN Printable[bytes[k] - 31]
        ELSE Replacement]

\* base64::decode: Ok(bytes) or Err.
base64_decode(s) ==
    IF b64_valid(s)
    THEN [tag |-> "Ok", bytes |-> B64Bytes(StripPad(s))]
    ELSE [tag |-> "Err"]

\* ------------------------------------------------------------ header names

\* http::header constants; a HeaderName is always lower-case.
PROXY_AUTHENTICATE == <<"p","r","o","x","y","-","a","u","t","h","e","n","t","i","c","a","t","e">>
PROXY_AUTHORIZATION == <<"p","r","o","x","y","-","a","u","t","h","o","r","i","z","a","t","i","o","n">>
CONNECTION == <<"c","o","n","n","e","c","t","i","o","n">>
TE == <<"t","e">>
TRAILER == <<"t","r","a","i","l","e","r">>
TRANSFER_ENCODING == <<"t","r","a","n","s","f","e","r","-","e","n","c","o","d","i","n","g">>
UPGRADE == <<"u","p","g","r","a","d","e">>
CONTENT_TYPE == <<"c","o","n","t","e","n","t","-","t","y","p","e">>

HOP_BY_HOP_HEADERS ==
    <<PROXY_AUTHENTICATE, PROXY_AUTHORIZATION, CONNECTION, TE, TRAILER,
      TRANSFER_ENCODING, UPGRADE>>

HOP_BY_HOP_HEADERS_NONSTD ==
    << <<"P","r","o","x","y","-","C","o","n","n","e","c","t","i","o","n">>,
       <<"K","e","e","p","-","A","l","i","v","e">> >>

\* A header the handlers of the model add (scenario S7 of the specification).
X_ADDED == <<"x","-","a","d","d","e","d">>

\* --------------------------------------------------------------- HeaderMap

\* Headers: a sequence of [name, value], name a HeaderName, several values per
\* name permitted.

\* HeaderMap::get: the first value of the name, or None.
HeaderGet(headers, key) ==
    IF \E k \in 1..Len(headers) : headers[k].name = key
    THEN Some(headers[CHOOSE k \in 1..Len(headers) :
                    /\ headers[k].name = key
                    /\ \A j \in 1..(k - 1) : headers[j].name # key].value)
    ELSE None

\* Only the first value of the name is dropped.
HeaderRemove_first_only(headers, key) ==
    LET name == to_lowercase(key)
        Keep(k) == headers[k].name # name \/ \E j \in 1..(k - 1) : headers[j].name = name
    IN  IF \E k \in 1..Len(headers) : headers[k].name = name
        THEN LET first == CHOOSE k \in 1..Len(headers) : ~Keep(k)
             IN  SubSeq(headers, 1, first - 1) \o SubSeq(headers, first + 1, Len(headers))
        ELSE headers

\* HeaderMap::remove: a string key is first converted to a HeaderName, which
\* lower-cases it; every value of the name is dropped.
HeaderRemove(headers, key) ==
    LET name == to_lowercase(key)
        Keep(h) == h.name # name
    IN  SelectSeq(headers, Keep)

\* HeaderMap::append.
HeaderAppend(headers, key, value) ==
    Append(headers, [name |-> to_lowercase(key), value |-> value])

HeaderContains(headers, key) ==
    \E k \in 1..Len(headers) : headers[k].name = to_lowercase(key)

RECURSIVE RemoveEach(_, _)
RemoveEach(headers, keys) ==
    IF keys = <<>> THEN headers
    ELSE RemoveEach(HeaderRemove(headers, Head(keys)), Tail(keys))

\* Only the standard names are removed: the second loop is missing.
remove_standard_only(headers) == RemoveEach(headers, HOP_BY_HOP_HEADERS)

\* Each call removes one hop-by-hop entry only: the first one of the map.
remove_one_hop_by_hop(headers) ==
    LET all == HOP_BY_HOP_HEADERS \o HOP_BY_HOP_HEADERS_NONSTD
        Hop(k) == \E j \in 1..Len(all) : headers[k].name = to_lowercase(all[j])
    IN  IF \E k \in 1..Len(headers) : Hop(k)
        THEN LET first == CHOOSE k \in 1..Len(headers) :
                              Hop(k) /\ \A j \in 1..(k - 1) : ~Hop(j)
             IN  SubSeq(headers, 1, first - 1) \o SubSeq(headers, first + 1, Len(headers))
        ELSE headers

\* Remove all hop-by-hop headers.
remove_hop_by_hop_headers(headers) ==
    RemoveEach(RemoveEach(headers, HOP_BY_HOP_HEADERS), HOP_BY_HOP_HEADERS_NONSTD)

\* ------------------------------------------------------------- credentials

\* Credentials::new.
Credentials(scheme, credentials) == [scheme |-> scheme, credentials |-> credentials]

\* HeaderValue::to_str succeeds: visible ASCII (and tab) only.
to_str_ok(value) == \A k \in 1..Len(value) : InSeq(value[k], Printable) \/ value[k] = Tab

\* TryFrom<&Request> for Credentials. The result is Ok(credentials),
\* Err(MissingHeader), Err(InvalidFormat{n}), or a panic: the `expect` on
\* to_str.
CredentialsTryFrom(request) ==
    LET got == HeaderGet(request.headers, PROXY_AUTHORIZATION)
        value == got[1]
        arr == split_whitespace(value)
    IN  IF got = None
        THEN [tag |-> "Err", err |-> "MissingHeader", n |-> 0]
        ELSE IF ~to_str_ok(value)
        THEN [tag |-> "Panic", msg |-> "failed to convert header value to string"]
        ELSE IF Len(arr) # 2
        THEN [tag |-> "Err", err |-> "InvalidFormat", n |-> Len(arr)]
        ELSE [tag |-> "Ok", credentials |-> Credentials(arr[1], arr[2])]

\* usize rendered by Display: decimal digits (lengths below 100).
Decimal(n) ==
    IF n < 10 THEN <<Digits[n + 1]>>
    ELSE <<Digits[(n \div 10) + 1], Digits[(n % 10) + 1]>>

T_Credentials ==
    <<"C","r","e","d","e","n","t","i","a","l","s"," ","{"," ","s","c","h","e","m","e",
      ":"," ">>
T_credentials ==
    <<","," ","c","r","e","d","e","n","t","i","a","l","s",":"," ">>
T_close ==
    <<" ","}">>
T_quote == <<"\"">>

\* <Credentials as Debug>::fmt, derived: the name of the struct and every
\* field with its value, strings quoted. (No character of the inputs needs
\* an escape.)
DebugCredentials(c) ==
    T_Credentials \o T_quote \o c.scheme \o T_quote
        \o T_credentials \o T_quote \o c.credentials \o T_quote \o T_close

T_parsed ==
    <<"p","a","r","s","e","d"," ","c","r","e","d","e","n","t","i","a","l","s"," ","w",
      "i","t","h"," ","s","c","h","e","m","e"," ">>
T_and ==
    <<" ","a","n","d"," ">>
T_length ==
    <<"-","l","e","n","g","t","h"," ","c","r","e","d","e","n","t","i","a","l","s"," ",
      "d","a","t","a">>

\* What Credentials::try_from writes to the log: for a value of two tokens
\* the trace record with the scheme and the length of the credentials; for a
\* missing header a debug record naming the headers present (not modelled
\* further: it does not depend on the value); nothing else.
TryFromLog(request) ==
    LET got == CredentialsTryFrom(request)
    IN  IF got.tag = "Ok"
        THEN <<[level |-> "TRACE",
                message |-> T_parsed \o got.credentials.scheme \o T_and
                            \o Decimal(Len(got.credentials.credentials)) \o T_length]>>
        ELSE IF got.tag = "Err" /\ got.err = "MissingHeader"
        THEN <<[level |-> "DEBUG", message |-> <<>>]>>
        ELSE <<>>

\* ---------------------------------------------------------- authenticators

S_basic == <<"b","a","s","i","c">>
S_bearer == <<"b","e","a","r","e","r">>

HTTPBasic(username, password) ==
    [kind |-> "HTTPBasic", username |-> username, password |-> password]

HTTPBearer(token) == [kind |-> "HTTPBearer", token |-> token]

AuthOk == [tag |-> "Ok"]
InvalidScheme(got, expect) ==
    [tag |-> "Err", err |-> "InvalidScheme", got |-> got, expect |-> expect]
InvalidFormat(n) == [tag |-> "Err", err |-> "InvalidFormat", n |-> n]
NotAuthenticated == [tag |-> "Err", err |-> "NotAuthenticated"]

\* HTTPBasic::authenticate. A failed base64 decode panics (`expect`).
HTTPBasicAuthenticate(self, credentials) ==
    LET dec == base64_decode(credentials.credentials)
        decoded == from_utf8_lossy(dec.bytes)
        v == split_terminator(decoded, ":")
        n == Len(v)
    IN  IF to_lowercase(credentials.scheme) # S_basic
        THEN InvalidScheme(credentials.scheme, S_basic)
        ELSE IF dec.tag # "Ok"
        THEN [tag |-> "Panic", msg |-> "failed to base64 decode HTTP basic credentials"]
        ELSE IF n # 2
        THEN InvalidFormat(n)
        ELSE IF v[1] = self.username /\ v[2] = self.password
        THEN AuthOk
        ELSE NotAuthenticated

\* The scheme is compared as given, without to_lowercase.
HTTPBearerAuthenticate_case_sensitive(self, credentials) ==
    IF credentials.scheme # S_bearer
    THEN InvalidScheme(credentials.scheme, S_bearer)
    ELSE IF credentials.credentials = self.token
    THEN AuthOk
    ELSE NotAuthenticated

\* HTTPBearer::authenticate.
HTTPBearerAuthenticate(self, credentials) ==
    IF to_lowercase(credentials.scheme) # S_bearer
    THEN InvalidScheme(credentials.scheme, S_bearer)
    ELSE IF credentials.credentials = self.token
    THEN AuthOk
    ELSE NotAuthenticated

\* Authenticator::authenticate, dispatched on the implementation.
Authenticate(ab, credentials) ==
    IF ab.kind = "HTTPBasic"
    THEN HTTPBasicAuthenticate(ab, credentials)
    ELSE HTTPBearerAuthenticate(ab, credentials)

\* ---------------------------------------------------------------- messages

HTTP_11 == "HTTP/1.1"

\* Request::new.
Request(method, uri, version, headers, payload) ==
    [method |-> method, uri |-> uri, version |-> version,
     headers |-> headers, payload |-> payload]

\* Request::from(hyper::Request): the body is read into the payload.
RequestFrom(hreq) ==
    Request(hreq.method, hreq.uri, hreq.version, hreq.headers, hreq.body)

\* From<Request> for hyper::Request.
RequestInto(val) ==
    [method |-> val.method, uri |-> val.uri, version |-> val.version,
     headers |-> val.headers, body |-> val.payload]

\* Response::new.
Response(status, version, headers, payload, request) ==
    [status |-> status, version |-> version, headers |-> headers,
     payload |-> payload, request |-> request]

\* The body of the upstream response is not read: the payload stays empty.
ResponseFrom_unread(hresp, request) ==
    Response(hresp.status, hresp.version, hresp.headers, "", request)

\* Response::from(hyper::Response, request).
ResponseFrom(hresp, request) ==
    Response(hresp.status, hresp.version, hresp.headers, hresp.body, request)

\* From<Response> for hyper::Response: the source request is dropped.
ResponseInto(val) ==
    [status |-> val.status, version |-> val.version,
     headers |-> val.headers, body |-> val.payload]

\* hyper::Response::builder().status(..).header(..).body(..).
HyperResponse(status, headers, body) ==
    [status |-> status, version |-> HTTP_11, headers |-> headers, body |-> body]

\* Uri::host / Uri::authority: present exactly when the URI has an authority.
UriAuthority(uri) == uri.authority
UriHost(uri) == uri.authority

\* ------------------------------------------------------------------ inputs

AbsoluteUri ==
    [scheme |-> "http", authority |-> Some("origin:80"), port |-> Some(80), path |-> "/hello"]
OriginFormUri == [scheme |-> "", authority |-> None, port |-> None, path |-> "/get"]
AuthorityFormUri ==
    [scheme |-> "", authority |-> Some("origin:443"), port |-> Some(443), path |-> ""]
\* An authority without a port, as in `CONNECT origin HTTP/1.1`.
HostOnlyUri == [scheme |-> "", authority |-> Some("origin"), port |-> None, path |-> ""]

Uris == {AbsoluteUri, OriginFormUri, AuthorityFormUri}

Methods == {"GET", "CONNECT"}

H(name, value) == [name |-> to_lowercase(name), value |-> value]

S_username == <<"u">>
S_password == <<"p">>
S_token == <<"t">>

\* "Bearer t", the configured token
V_BearerOk == <<"B","e","a","r","e","r"," ","t">>
\* "bearer", a tab and two spaces, "t"
V_BearerRun == <<"b","e","a","r","e","r",Tab," "," ","t">>
\* "Bearer x", another token
V_BearerBad == <<"B","e","a","r","e","r"," ","x">>
\* "Basic dTpw", base64 of "u:p"
V_BasicOk == <<"B","a","s","i","c"," ","d","T","p","w">>
\* "Basic cDp1", base64 of "p:u"
V_BasicSwapped == <<"B","a","s","i","c"," ","c","D","p","1">>
\* "Basic dTo=", base64 of "u:"
V_BasicNoPassword == <<"B","a","s","i","c"," ","d","T","o","=">>
\* "Basic dTpwOnE=", base64 of "u:p:q"
V_BasicThree == <<"B","a","s","i","c"," ","d","T","p","w","O","n","E","=">>
\* "Basic !!!!", not base64
V_BasicUndecodable == <<"B","a","s","i","c"," ","!","!","!","!">>
\* one token
V_OneToken == <<"B","e","a","r","e","r">>
\* three tokens
V_ThreeTokens == <<"B","e","a","r","e","r"," ","t"," ","x">>
\* no token
V_Empty == <<>>
\* one token holding a byte that is not visible ASCII
V_ObsText == <<"B","e","a","r","e","r",ObsText>>

ProxyAuthorizationValues ==
    {V_BearerOk, V_BearerRun, V_BearerBad, V_BasicOk, V_BasicSwapped,
     V_BasicNoPassword, V_BasicThree, V_BasicUndecodable, V_OneToken,
     V_ThreeTokens, V_Empty, V_ObsText}

\* The header lists of the requests: without Proxy-Authorization, with one
\* (and a Proxy-Connection, as in scenario S8), and with hop-by-hop names
\* occurring several times.
HeaderLists ==
    {<<H(CONTENT_TYPE, <<"j">>)>>}
    \cup {<<H(CONTENT_TYPE, <<"j">>), H(PROXY_AUTHORIZATION, v),
           H(HOP_BY_HOP_HEADERS_NONSTD[1], <<"k">>)>> : v \in ProxyAuthorizationValues}
    \cup {<<H(PROXY_AUTHENTICATE, <<"a">>), H(PROXY_AUTHORIZATION, V_BearerOk),
            H(CONTENT_TYPE, <<"j">>), H(PROXY_AUTHENTICATE, <<"b">>),
            H(PROXY_AUTHORIZATION, V_OneToken), H(HOP_BY_HOP_HEADERS_NONSTD[2], <<"k">>)>>}

\* The requests hyper hands to serve().
HyperRequests ==
    {[method |-> m, uri |-> u, version |-> HTTP_11, headers |-> h, body |-> "payload"] :
        m \in Methods, u \in Uris, h \in HeaderLists}
    \cup {[method |-> "CONNECT", uri |-> HostOnlyUri, version |-> HTTP_11,
           headers |-> <<H(CONTENT_TYPE, <<"j">>)>>, body |-> ""]}

\* The responses of the origin.
OriginResponses ==
    {[status |-> 200, version |-> HTTP_11,
      headers |-> <<H(CONTENT_TYPE, <<"t">>)>>, body |-> "Good Evening"]}

Authenticators == {HTTPBasic(S_username, S_password), HTTPBearer(S_token)}

RECURSIVE SeqsUpTo(_, _)
\* The sequences over S of length at most n.
SeqsUpTo(S, n) ==
    IF n = 0 THEN {<<>>}
    ELSE LET shorter == SeqsUpTo(S, n - 1)
         IN  shorter \cup {Append(q, x) : q \in shorter, x \in S}

\* ------------------------------------------------------------------- state

VARIABLES
    counter,            \* Proxy.counter, shared by every clone of the Proxy
    auths,              \* Proxy.auths
    handlers,           \* Proxy.handlers, each named by its index
    HTTP_REQ_COUNTER,   \* metrics::HTTP_REQ_COUNTER
    HTTP_REQ_HISTOGRAM, \* metrics::HTTP_REQ_HISTOGRAM: number of observations
    conn,               \* per client connection: its flow and the task serving it
    call,               \* the last direct call of a public function and its result
    run                 \* Proxy::run: serving, draining after the signal, returned

vars == <<counter, auths, handlers, HTTP_REQ_COUNTER, HTTP_REQ_HISTOGRAM, conn, call, run>>

Conns == 1..MaxConns

\* What a call returned: nothing yet, Ok(v), Err(e), or a panic.
Pending == [tag |-> "Pending"]
Ok(v) == [tag |-> "Ok", val |-> v]
Err(e) == [tag |-> "Err", err |-> e]

\* A connection not yet accepted. `pc` is the await the task is at; `id` the
\* value fetch_add returned to Flow::new; `flow` the Flow of the connection;
\* `f` the clone serve() got for the current request; `hreq` the request as
\* hyper delivered it; `req`, `resp`, `credentials`, `i` the locals of
\* proxy(); `ret` what connect()/proxy() returned; `result` what serve()
\* returned to hyper, that is, to the client; `tunnel` the spawned tunnel
\* task; `log` the calls of the current request, in order.
NoConn ==
    [pc |-> "listen", id |-> None, flow |-> None, f |-> None, hreq |-> None,
     req |-> None, resp |-> None, credentials |-> None, i |-> 0,
     ret |-> Pending, result |-> Pending, tunnel |-> "none", log |-> <<>>]

Ev(name, i, flow, arg, res) ==
    [ev |-> name, i |-> i, flow |-> flow, arg |-> arg, res |-> res]

Logged(r, name, i, arg, res) == Append(r.log, Ev(name, i, r.f, arg, res))

\* ------------------------------------------------------------------- flow

\* A fetch_add that stores the value it read: the increment is lost.
fetch_add_lost(c) == c

\* AtomicU64::fetch_add(1): the new value of the counter. No behaviour of the
\* model creates as many as 2^64 flows, so the wrap-around is never reached.
fetch_add(c) == c + 1

\* The ids are counted from one.
FlowNew_from_one(id, client) == [id |-> id + 1, client |-> client, auth |-> None]

\* Flow::new, after the fetch_add: the flow of the connection.
FlowNew(id, client) == [id |-> id, client |-> client, auth |-> None]

\* Flow::new, first half: `proxy.counter.fetch_add(1, SeqCst)` returns the old
\* value. One atomic step; other Flow::new calls may run before the struct
\* is built. The server accepts connections until the shutdown signal.
FetchAdd(c) ==
    /\ run = "serving"
    /\ conn[c].pc = "listen"
    /\ conn' = [conn EXCEPT ![c] = [@ EXCEPT !.pc = "Flow::new", !.id = counter]]
    /\ counter' = fetch_add(counter)
    /\ UNCHANGED <<auths, handlers, HTTP_REQ_COUNTER, HTTP_REQ_HISTOGRAM, call, run>>

\* Flow::new, second half (Proxy::flow, called for each accepted connection by
\* the make_service_fn closure of Proxy::run).
NewFlow(c) ==
    /\ conn[c].pc = "Flow::new"
    /\ conn' = [conn EXCEPT ![c] =
                    [@ EXCEPT !.pc = "idle", !.flow = FlowNew(conn[c].id, c)]]
    /\ UNCHANGED <<counter, auths, handlers, HTTP_REQ_COUNTER, HTTP_REQ_HISTOGRAM, call, run>>

\* ------------------------------------------------------------------ serve

\* The flow is not cloned for the request: a later request on the connection
\* goes on with the flow the request before it left behind.
ServeBegin_flow_kept(r, hreq) ==
    [r EXCEPT !.pc = IF hreq.method = "CONNECT" THEN "connect" ELSE "proxy",
              !.f = IF r.pc = "idle" THEN r.flow ELSE r.f,
              !.hreq = hreq, !.req = None, !.resp = None,
              !.credentials = None, !.i = 0, !.ret = Pending, !.result = Pending,
              !.log = <<>>]

\* There is no route for CONNECT: every request is delegated to proxy().
ServeBegin_no_route(r, hreq) ==
    [r EXCEPT !.pc = "proxy",
              !.f = r.flow, !.hreq = hreq, !.req = None, !.resp = None,
              !.credentials = None, !.i = 0, !.ret = Pending, !.result = Pending,
              !.log = <<>>]

\* serve(), up to the route: the request gets a clone of the connection's
\* flow, and the route is chosen by the method.
ServeBegin(r, hreq) ==
    [r EXCEPT !.pc = IF hreq.method = "CONNECT" THEN "connect" ELSE "proxy",
              !.f = r.flow, !.hreq = hreq, !.req = None, !.resp = None,
              !.credentials = None, !.i = 0, !.ret = Pending, !.result = Pending,
              !.log = <<>>]

\* A request arrives on a kept-alive connection: service_fn calls
\* serve(flow.clone(), req), which increments the request counter first. Once
\* the server is shutting down, no further request is read from a connection.
Serve(c, hreq) ==
    /\ run = "serving"
    /\ conn[c].pc \in {"idle", "done"}
    /\ HTTP_REQ_COUNTER < MaxRequests
    /\ HTTP_REQ_COUNTER' = HTTP_REQ_COUNTER + 1
    /\ conn' = [conn EXCEPT ![c] = ServeBegin(conn[c], hreq)]
    /\ UNCHANGED <<counter, auths, handlers, HTTP_REQ_HISTOGRAM, call, run>>

\* What becomes of the connection once serve() has returned: a service error
\* ends it, an accepted CONNECT leaves HTTP framing, anything else keeps it
\* alive for the next request.
AfterServe(r) ==
    IF r.ret.tag = "Err" THEN "closed"
    ELSE IF r.tunnel = "spawned" THEN "upgrading"
    ELSE "done"

\* serve(), after the route returned: the duration is recorded and the result
\* handed back.
ServeEnd(c) ==
    /\ conn[c].pc = "serve_end"
    /\ HTTP_REQ_HISTOGRAM' = HTTP_REQ_HISTOGRAM + 1
    /\ conn' = [conn EXCEPT ![c] =
                    [@ EXCEPT !.pc = AfterServe(conn[c]), !.result = conn[c].ret]]
    /\ UNCHANGED <<counter, auths, handlers, HTTP_REQ_COUNTER, call, run>>

\* A local step of the task of connection c: r is its state after the step.
Local(c, r) ==
    /\ conn' = [conn EXCEPT ![c] = r]
    /\ UNCHANGED <<counter, auths, handlers, HTTP_REQ_COUNTER, HTTP_REQ_HISTOGRAM, call, run>>

Return(r, ret) == [r EXCEPT !.pc = "serve_end", !.ret = ret]

Panic(r, msg) == [r EXCEPT !.pc = "panicked", !.ret = [tag |-> "Panic", msg |-> msg]]

\* ---------------------------------------------------------------- connect

\* connect(): with an authority the tunnel task is spawned and 200 returned,
\* without one 400.
ConnectStep(r) ==
    IF UriAuthority(r.hreq.uri) # None
    THEN Return([r EXCEPT !.tunnel = "spawned"], Ok(HyperResponse(200, <<>>, "")))
    ELSE Return(r, Ok(HyperResponse(400, <<>>, "CONNECT must be to a socket address.")))

Connect(c) ==
    /\ conn[c].pc = "connect"
    /\ Local(c, ConnectStep(conn[c]))

\* The task does not look at the result of the upgrade: it connects to the
\* authority whether the upgrade succeeded or failed.
TunnelStep_connect_anyway(r, ok) ==
    IF r.tunnel = "spawned" THEN [r EXCEPT !.tunnel = "connected"]
    ELSE IF ~ok THEN [r EXCEPT !.tunnel = "server io error"]
    ELSE [r EXCEPT !.tunnel = "closed"]

\* The spawned task: hyper::upgrade::on(req) completes once the 200 has been
\* sent; then tunnel() connects to the authority and copies until close. An
\* error at any stage is logged and ends the task.
TunnelStep(r, ok) ==
    IF ~ok THEN [r EXCEPT !.tunnel = IF r.tunnel = "spawned" THEN "upgrade error"
                                                          ELSE "server io error"]
    ELSE [r EXCEPT !.tunnel = IF r.tunnel = "spawned" THEN "upgraded"
                              ELSE IF r.tunnel = "upgraded" THEN "connected"
                              ELSE "closed"]

Tunnel(c, ok) ==
    /\ conn[c].tunnel \in {"spawned", "upgraded", "connected"}
    /\ conn[c].tunnel = "spawned" => conn[c].pc = "upgrading"
    /\ Local(c, TunnelStep(conn[c], ok))

\* ------------------------------------------------------------------ handlers

\* What a handler may return from on_request: the variants of Forward, or a
\* panic. A modifying handler appends an X-Added header carrying its index;
\* "ModifyHop" also appends hop-by-hop headers.
ForwardKinds == {"DoNothing", "Modify", "ModifyHop", "Reply", "Panic"}

ForwardResult(kind, h, flow, req) ==
    LET added == HeaderAppend(req.headers, X_ADDED, <<Digits[h + 1]>>)
        hop == HeaderAppend(HeaderAppend(added, CONNECTION, <<"k">>),
                            HOP_BY_HOP_HEADERS_NONSTD[2], <<"k">>)
    IN  CASE kind = "DoNothing" -> [tag |-> "DoNothing"]
          [] kind = "Modify" -> [tag |-> "Modify", val |-> [req EXCEPT !.headers = added]]
          [] kind = "ModifyHop" -> [tag |-> "Modify", val |-> [req EXCEPT !.headers = hop]]
          [] kind = "Reply" ->
                [tag |-> "Reply",
                 val |-> Response(418, HTTP_11, <<H(X_ADDED, <<Digits[h + 1]>>)>>, "teapot", req)]
          [] OTHER -> [tag |-> "Panic"]

\* What a handler may return from on_response: the variants of Reverse, or a
\* panic.
ReverseKinds == {"DoNothing", "Modify", "Replace", "Panic"}

ReverseResult(kind, h, flow, resp) ==
    LET added == HeaderAppend(resp.headers, X_ADDED, <<Digits[h + 1]>>)
    IN  CASE kind = "DoNothing" -> [tag |-> "DoNothing"]
          [] kind = "Modify" -> [tag |-> "Modify", val |-> [resp EXCEPT !.headers = added]]
          [] kind = "Replace" ->
                [tag |-> "Replace",
                 val |-> Response(203, HTTP_11, <<H(X_ADDED, <<Digits[h + 1]>>)>>,
                                  "replaced", resp.request)]
          [] OTHER -> [tag |-> "Panic"]

\* ------------------------------------------------------------------- proxy

\* proxy(): `req.uri().host().expect(..)`.
ProxyBeginStep(r) ==
    IF UriHost(r.hreq.uri) = None
    THEN Panic(r, "URI has no host part")
    ELSE [r EXCEPT !.pc = "Request::from"]

ProxyBegin(c) ==
    /\ conn[c].pc = "proxy"
    /\ Local(c, ProxyBeginStep(conn[c]))

\* `Request::from(req).await`: the body is buffered, or reading it fails and
\* the `expect` panics.
BufferRequestStep(r, ok) ==
    IF ok
    THEN [r EXCEPT !.pc = "auth", !.req = RequestFrom(r.hreq),
                   !.log = Logged(r, "Request::from", 0, RequestFrom(r.hreq), None)]
    ELSE Panic(r, "failed to read bytes")

BufferRequest(c, ok) ==
    /\ conn[c].pc = "Request::from"
    /\ Local(c, BufferRequestStep(conn[c], ok))

BadCredentials == HyperResponse(400, <<>>, "invalid proxy auth credentials")

\* `if !flow.app().auths.is_empty()` and `Credentials::try_from(&req)`.
ExtractStep(r) ==
    LET got == CredentialsTryFrom(r.req)
        log == Logged(r, "Credentials::try_from", 0, r.req, got)
    IN  IF auths = <<>>
        THEN [r EXCEPT !.pc = "on_request", !.i = 1]
        ELSE IF got.tag = "Ok"
        THEN [r EXCEPT !.pc = "authenticate", !.i = 1, !.log = log,
                       !.credentials = got.credentials]
        ELSE IF got.tag = "Err"
        THEN Return([r EXCEPT !.log = log], Ok(BadCredentials))
        ELSE Panic([r EXCEPT !.log = log], got.msg)

Extract(c) ==
    /\ conn[c].pc = "auth"
    /\ Local(c, ExtractStep(conn[c]))

\* flow.auth is set whatever the authenticator returned.
AuthenticateStep_always_set(r) ==
    LET res == Authenticate(auths[r.i], r.credentials)
        log == Logged(r, "authenticate", r.i, r.credentials, res)
    IN  IF res.tag = "Panic"
        THEN Panic([r EXCEPT !.log = log], res.msg)
        ELSE [r EXCEPT !.pc = "auth_check", !.log = log,
                       !.f = [r.f EXCEPT !.auth = Some(r.credentials)]]

\* The `break` is missing: the loop goes on after an Ok.
AuthenticateStep_no_break(r) ==
    LET res == Authenticate(auths[r.i], r.credentials)
        log == Logged(r, "authenticate", r.i, r.credentials, res)
        f == IF res.tag = "Ok" THEN [r.f EXCEPT !.auth = Some(r.credentials)] ELSE r.f
    IN  IF res.tag = "Panic"
        THEN Panic([r EXCEPT !.log = log], res.msg)
        ELSE [r EXCEPT !.pc = IF r.i < Len(auths) THEN "authenticate" ELSE "auth_check",
                       !.i = r.i + 1, !.log = log, !.f = f]

\* One turn of `for ab in flow.app().auths.iter()`: Ok sets flow.auth and
\* breaks, Err goes on to the next authenticator.
AuthenticateStep(r) ==
    LET res == Authenticate(auths[r.i], r.credentials)
        log == Logged(r, "authenticate", r.i, r.credentials, res)
    IN  IF res.tag = "Ok"
        THEN [r EXCEPT !.pc = "auth_check", !.log = log,
                       !.f = [r.f EXCEPT !.auth = Some(r.credentials)]]
        ELSE IF res.tag = "Err"
        THEN [r EXCEPT !.pc = IF r.i < Len(auths) THEN "authenticate" ELSE "auth_check",
                       !.i = r.i + 1, !.log = log]
        ELSE Panic([r EXCEPT !.log = log], res.msg)

AuthenticateNext(c) ==
    /\ conn[c].pc = "authenticate"
    /\ Local(c, AuthenticateStep(conn[c]))

AuthRequired ==
    HyperResponse(407, <<H(PROXY_AUTHENTICATE, <<"B","e","a","r","e","r">>)>>, "")

\* The check of flow.auth is missing: the request goes on to the handlers.
AuthCheckStep_no_check(r) == [r EXCEPT !.pc = "on_request", !.i = 1]

\* `if flow.auth().is_none()`: respond with 407 if no auth passed.
AuthCheckStep(r) ==
    IF r.f.auth = None
    THEN Return(r, Ok(AuthRequired))
    ELSE [r EXCEPT !.pc = "on_request", !.i = 1]

\* The result of authentication is kept in state shared by the flows: the
\* check passes if any flow in flight has been authenticated.
AuthCheck_shared(c) ==
    /\ conn[c].pc = "auth_check"
    /\ Local(c, IF \E d \in Conns : conn[d].pc \notin {"listen", "Flow::new", "idle"}
                                        /\ conn[d].f.auth # None
                THEN [conn[c] EXCEPT !.pc = "on_request", !.i = 1]
                ELSE Return(conn[c], Ok(AuthRequired)))

AuthCheck(c) ==
    /\ conn[c].pc = "auth_check"
    /\ Local(c, AuthCheckStep(conn[c]))

\* The handler call takes the credentials out of the flow: flow.auth is
\* written a second time, in the middle of the chain.
OnRequestStep_takes_auth(r, res) ==
    LET log == Logged(r, "on_request", r.i, r.req, res)
        f == [r.f EXCEPT !.auth = None]
    IN  CASE res.tag = "DoNothing" -> [r EXCEPT !.i = r.i + 1, !.log = log, !.f = f]
          [] res.tag = "Modify" ->
                [r EXCEPT !.i = r.i + 1, !.log = log, !.req = res.val, !.f = f]
          [] res.tag = "Reply" -> Return([r EXCEPT !.log = log], Ok(ResponseInto(res.val)))
          [] OTHER -> Panic([r EXCEPT !.log = log], "handler panicked")

\* A Reply does not end the chain: the loop goes on with the next handler.
OnRequestStep_reply_continues(r, res) ==
    LET log == Logged(r, "on_request", r.i, r.req, res)
    IN  CASE res.tag \in {"DoNothing", "Reply"} -> [r EXCEPT !.i = r.i + 1, !.log = log]
          [] res.tag = "Modify" -> [r EXCEPT !.i = r.i + 1, !.log = log, !.req = res.val]
          [] OTHER -> Panic([r EXCEPT !.log = log], "handler panicked")

\* The request of a Modify is dropped: the next handler gets the old one.
OnRequestStep_modify_dropped(r, res) ==
    LET log == Logged(r, "on_request", r.i, r.req, res)
    IN  CASE res.tag \in {"DoNothing", "Modify"} -> [r EXCEPT !.i = r.i + 1, !.log = log]
          [] res.tag = "Reply" -> Return([r EXCEPT !.log = log], Ok(ResponseInto(res.val)))
          [] OTHER -> Panic([r EXCEPT !.log = log], "handler panicked")

\* One turn of `for h in flow.app().handlers.iter()` on the request: the
\* handler gets a clone of the current request.
OnRequestStep(r, res) ==
    LET log == Logged(r, "on_request", r.i, r.req, res)
    IN  CASE res.tag = "DoNothing" -> [r EXCEPT !.i = r.i + 1, !.log = log]
          [] res.tag = "Modify" -> [r EXCEPT !.i = r.i + 1, !.log = log, !.req = res.val]
          [] res.tag = "Reply" -> Return([r EXCEPT !.log = log], Ok(ResponseInto(res.val)))
          [] OTHER -> Panic([r EXCEPT !.log = log], "handler panicked")

OnRequest(c, kind) ==
    /\ conn[c].pc = "on_request"
    /\ conn[c].i <= Len(handlers)
    /\ Local(c, OnRequestStep(conn[c],
                    ForwardResult(kind, handlers[conn[c].i], conn[c].f, conn[c].req)))

\* After the forward chain: the hop-by-hop headers are removed and the
\* request is handed to the outbound client.
ForwardStep(r) ==
    LET req == [r.req EXCEPT !.headers = remove_hop_by_hop_headers(r.req.headers)]
    IN  [r EXCEPT !.pc = "client.request", !.req = req,
                  !.log = Logged(r, "client.request", 0, RequestInto(req), None)]

Forward(c) ==
    /\ conn[c].pc = "on_request"
    /\ conn[c].i > Len(handlers)
    /\ Local(c, ForwardStep(conn[c]))

\* A failed outbound call is answered with 502 instead of being returned.
OriginStep_bad_gateway(r, res) ==
    IF res.tag = "Ok"
    THEN [r EXCEPT !.pc = "Response::from", !.resp = res.val,
                   !.log = Logged(r, "client.response", 0, res.val, None)]
    ELSE Return([r EXCEPT !.log = Logged(r, "client.error", 0, None, None)],
                Ok(HyperResponse(502, <<>>, "")))

\* The handlers run on the response as soon as its head has arrived: the
\* step that buffers the body is skipped.
OriginStep_unbuffered(r, res) ==
    IF res.tag = "Ok"
    THEN [r EXCEPT !.pc = "on_response", !.i = 1, !.resp = ResponseFrom(res.val, r.req),
                   !.log = Logged(r, "client.response", 0, res.val, None)]
    ELSE Return([r EXCEPT !.log = Logged(r, "client.error", 0, None, None)],
                Err("hyper::Error"))

\* `client.request(..).await?`: the origin's response arrives, or the call
\* fails and proxy() returns the error.
OriginStep(r, res) ==
    IF res.tag = "Ok"
    THEN [r EXCEPT !.pc = "Response::from", !.resp = res.val,
                   !.log = Logged(r, "client.response", 0, res.val, None)]
    ELSE Return([r EXCEPT !.log = Logged(r, "client.error", 0, None, None)],
                Err("hyper::Error"))

Origin(c, res) ==
    /\ conn[c].pc = "client.request"
    /\ Local(c, OriginStep(conn[c], res))

\* The response is built with the request as it arrived, not as it was sent.
BufferResponseStep_arrived_request(r, ok) ==
    LET resp == ResponseFrom(r.resp, RequestFrom(r.hreq))
    IN  IF ok
        THEN [r EXCEPT !.pc = "on_response", !.i = 1, !.resp = resp,
                       !.log = Logged(r, "Response::from", 0, resp, None)]
        ELSE Panic(r, "failed to read bytes")

\* `Response::from(resp, req).await`: the body is buffered and the request
\* attached, or reading the body fails and the `expect` panics.
BufferResponseStep(r, ok) ==
    LET resp == ResponseFrom(r.resp, r.req)
    IN  IF ok
        THEN [r EXCEPT !.pc = "on_response", !.i = 1, !.resp = resp,
                       !.log = Logged(r, "Response::from", 0, resp, None)]
        ELSE Panic(r, "failed to read bytes")

BufferResponse(c, ok) ==
    /\ conn[c].pc = "Response::from"
    /\ Local(c, BufferResponseStep(conn[c], ok))

\* A Replace does not end the chain: it is taken as a Modify.
OnResponseStep_replace_continues(r, res) ==
    LET log == Logged(r, "on_response", r.i, r.resp, res)
    IN  CASE res.tag = "DoNothing" -> [r EXCEPT !.i = r.i + 1, !.log = log]
          [] res.tag \in {"Modify", "Replace"} ->
                [r EXCEPT !.i = r.i + 1, !.log = log, !.resp = res.val]
          [] OTHER -> Panic([r EXCEPT !.log = log], "handler panicked")

\* One turn of `for h in flow.app().handlers.iter()` on the response.
OnResponseStep(r, res) ==
    LET log == Logged(r, "on_response", r.i, r.resp, res)
    IN  CASE res.tag = "DoNothing" -> [r EXCEPT !.i = r.i + 1, !.log = log]
          [] res.tag = "Modify" -> [r EXCEPT !.i = r.i + 1, !.log = log, !.resp = res.val]
          [] res.tag = "Replace" -> Return([r EXCEPT !.log = log], Ok(ResponseInto(res.val)))
          [] OTHER -> Panic([r EXCEPT !.log = log], "handler panicked")

OnResponse(c, kind) ==
    /\ conn[c].pc = "on_response"
    /\ conn[c].i <= Len(handlers)
    /\ Local(c, OnResponseStep(conn[c],
                    ReverseResult(kind, handlers[conn[c].i], conn[c].f, conn[c].resp)))

\* After the reverse chain: `Ok(resp.into())`.
RespondStep(r) == Return(r, Ok(ResponseInto(r.resp)))

Respond(c) ==
    /\ conn[c].pc = "on_response"
    /\ conn[c].i > Len(handlers)
    /\ Local(c, RespondStep(conn[c]))

\* ----------------------------------------------------------- specification

\* No public function has been called directly.
NoCall == [fn |-> "none"]

\* Proxy::new: the counter starts at 0; auths and handlers are fixed. The
\* server of Proxy::run is bound and serving.
ProxyNew(as, hs) ==
    /\ counter = 0
    /\ auths = as
    /\ handlers = hs
    /\ HTTP_REQ_COUNTER = 0
    /\ HTTP_REQ_HISTOGRAM = 0
    /\ conn = [c \in Conns |-> NoConn]
    /\ call = NoCall
    /\ run = "serving"

Init ==
    \E as \in SeqsUpTo(Authenticators, MaxAuths), n \in 0..MaxHandlers :
        ProxyNew(as, [k \in 1..n |-> k])

\* The steps of the task of connection c, with the environment's choices
\* drawn from `env`.
Task(c, env) ==
    \/ FetchAdd(c)
    \/ NewFlow(c)
    \/ \E hreq \in env.requests : Serve(c, hreq)
    \/ Connect(c)
    \/ \E ok \in env.ok : Tunnel(c, ok)
    \/ ProxyBegin(c)
    \/ \E ok \in env.ok : BufferRequest(c, ok)
    \/ Extract(c)
    \/ AuthenticateNext(c)
    \/ AuthCheck(c)
    \/ \E kind \in env.forward : OnRequest(c, kind)
    \/ Forward(c)
    \/ \E res \in env.origin : Origin(c, res)
    \/ \E ok \in env.ok : BufferResponse(c, ok)
    \/ \E kind \in env.reverse : OnResponse(c, kind)
    \/ Respond(c)
    \/ ServeEnd(c)

\* Every request, every handler result, every failure of the environment.
AnyEnv ==
    [requests |-> HyperRequests, ok |-> BOOLEAN, forward |-> ForwardKinds,
     reverse |-> ReverseKinds,
     origin |-> {Ok(o) : o \in OriginResponses} \cup {Err("hyper::Error")}]

\* One kept-alive connection serving any requests, one after the other.
Next == Task(1, AnyEnv)

Spec == Init /\ [][Next]_vars

\* Concurrent connections: the requests, handler results and origin of a
\* smaller environment, so that every interleaving of the tasks is explored.
ConcRequests ==
    {[method |-> "GET", uri |-> AbsoluteUri, version |-> HTTP_11,
      headers |-> <<H(PROXY_AUTHORIZATION, v)>>, body |-> "payload"] :
        v \in {V_BearerOk, V_BearerBad}}
    \cup {[method |-> "CONNECT", uri |-> AuthorityFormUri, version |-> HTTP_11,
           headers |-> <<>>, body |-> ""]}

ConcEnv ==
    [requests |-> ConcRequests, ok |-> {TRUE}, forward |-> {"DoNothing", "Modify"},
     reverse |-> {"DoNothing", "Modify"},
     origin |-> {Ok(o) : o \in OriginResponses}]

InitConc == ProxyNew(<<HTTPBearer(S_token)>>, <<1>>)

NextConc == \E c \in Conns : Task(c, ConcEnv)

SpecConc == InitConc /\ [][NextConc]_vars

\* ---------------------------------------------------------------- shutdown

\* A task the server waits for: a connection in the middle of Flow::new or
\* of a request, or one whose upgrade has not been handed over yet. Once
\* the upgrade is handed to the spawned task (which Proxy::run holds no
\* handle of), the connection is no longer the server's.
Watched(r) ==
    \/ r.pc \notin {"listen", "idle", "done", "closed", "panicked", "upgrading"}
    \/ r.pc = "upgrading" /\ r.tunnel = "spawned"

\* shutdown_signal() completes: ctrl_c() has delivered SIGINT.
ShutdownSignal ==
    /\ run = "serving"
    /\ run' = "draining"
    /\ UNCHANGED <<counter, auths, handlers, HTTP_REQ_COUNTER, HTTP_REQ_HISTOGRAM, conn, call>>

\* Proxy::run returns: the future of with_graceful_shutdown completes when
\* every connection the server watches has finished.
RunReturn ==
    /\ run = "draining"
    /\ \A c \in Conns : ~Watched(conn[c])
    /\ run' = "returned"
    /\ UNCHANGED <<counter, auths, handlers, HTTP_REQ_COUNTER, HTTP_REQ_HISTOGRAM, conn, call>>

\* The requests, handler results and origin of the shutdown environment.
RunEnv ==
    [requests |-> {q \in ConcRequests : q.headers # <<H(PROXY_AUTHORIZATION, V_BearerBad)>>},
     ok |-> BOOLEAN, forward |-> {"DoNothing"}, reverse |-> {"DoNothing"},
     origin |-> {Ok(o) : o \in OriginResponses}]

NextRun ==
    \/ \E c \in Conns : Task(c, RunEnv)
    \/ ShutdownSignal
    \/ RunReturn

\* Concurrent connections, and SIGINT at any moment.
SpecRun == InitConc /\ [][NextRun]_vars

\* ------------------------------------------------- authenticators, directly

\* The decoded credentials of the direct calls: every text of at most MaxText
\* characters over a user character, a password character and the colon.
Texts == SeqsUpTo({"u", "p", ":"}, MaxText)

\* The ASCII code of a printable character.
Code(ch) == IndexOf(ch, Printable) + 31

RECURSIVE base64_encode(_)
\* base64::encode of the bytes of a text: three bytes give four characters,
\* the last group is padded with "=".
base64_encode(text) ==
    LET b(k) == Code(text[k])
        c1 == B64Alphabet[(b(1) \div 4) + 1]
        c2(next) == B64Alphabet[(b(1) % 4) * 16 + (next \div 16) + 1]
        c3(next) == B64Alphabet[(b(2) % 16) * 4 + (next \div 64) + 1]
        c4 == B64Alphabet[(b(3) % 64) + 1]
    IN  IF Len(text) >= 3
        THEN <<c1, c2(b(2)), c3(b(3)), c4>> \o base64_encode(SubSeq(text, 4, Len(text)))
        ELSE IF Len(text) = 2 THEN <<c1, c2(b(2)), c3(0), "=">>
        ELSE IF Len(text) = 1 THEN <<c1, c2(0), "=", "=">>
        ELSE <<>>

\* The schemes of the direct calls, as given by the caller.
SchemesGiven ==
    {<<"B","a","s","i","c">>, <<"b","a","s","i","c">>, <<"B","A","S","I","C">>,
     <<"B","a","s","e">>, <<"B","e","a","r","e","r">>, <<"b","e","a","r","e","r">>,
     <<"B","E","A","r","e","r">>, <<"T","o","k","e","n">>, <<>>}

\* HTTPBasic::new / HTTPBearer::new of the direct calls.
BasicSelves == {HTTPBasic(<<"u">>, <<"p">>), HTTPBasic(<<"u">>, <<>>)}
BearerSelves == {HTTPBearer(<<"u">>), HTTPBearer(<<"u", ":", "p">>)}

\* HTTPBasic::authenticate called with Credentials::new(scheme, data), where
\* data is the base64 encoding of `text`, or, if not `valid`, that encoding
\* followed by a character outside the base64 alphabet.
CallHTTPBasic(self, scheme, text, valid) ==
    LET data == IF valid THEN base64_encode(text) ELSE base64_encode(text) \o <<"!">>
        arg == Credentials(scheme, data)
    IN  /\ call = NoCall
        /\ call' = [fn |-> "HTTPBasic::authenticate", self |-> self, text |-> text,
                    valid |-> valid, arg |-> arg, res |-> HTTPBasicAuthenticate(self, arg)]
        /\ UNCHANGED <<counter, auths, handlers, HTTP_REQ_COUNTER, HTTP_REQ_HISTOGRAM, conn, run>>

\* HTTPBearer::authenticate called with Credentials::new(scheme, text).
CallHTTPBearer(self, scheme, text) ==
    LET arg == Credentials(scheme, text)
    IN  /\ call = NoCall
        /\ call' = [fn |-> "HTTPBearer::authenticate", self |-> self, text |-> text,
                    valid |-> TRUE, arg |-> arg, res |-> HTTPBearerAuthenticate(self, arg)]
        /\ UNCHANGED <<counter, auths, handlers, HTTP_REQ_COUNTER, HTTP_REQ_HISTOGRAM, conn, run>>

InitAuth == ProxyNew(<<>>, <<>>)

NextAuth ==
    \/ \E self \in BasicSelves, scheme \in SchemesGiven, text \in Texts, valid \in BOOLEAN :
           CallHTTPBasic(self, scheme, text, valid)
    \/ \E self \in BearerSelves, scheme \in SchemesGiven, text \in Texts :
           CallHTTPBearer(self, scheme, text)

\* An authenticator called directly, once, with any scheme and any
\* credentials.
SpecAuth == InitAuth /\ [][NextAuth]_vars

\* ------------------------------------- extraction and header removal, directly

\* The Proxy-Authorization values of the direct calls: every value of at
\* most MaxValue bytes over a space, a tab, two visible characters and a byte
\* that is not visible ASCII.
HeaderValues == SeqsUpTo({" ", Tab, "a", "b", ObsText}, MaxValue)

\* Credentials::try_from called on a request without a Proxy-Authorization
\* header (value = None) or with one holding Some(value); the log it writes
\* and the Debug rendering of the credentials it returns are kept.
CallTryFrom(value) ==
    LET headers == IF value = None THEN <<H(CONTENT_TYPE, <<"j">>)>>
                   ELSE <<H(CONTENT_TYPE, <<"j">>), H(PROXY_AUTHORIZATION, value[1])>>
        request == Request("GET", AbsoluteUri, HTTP_11, headers, "")
        got == CredentialsTryFrom(request)
    IN  /\ call = NoCall
        /\ call' = [fn |-> "Credentials::try_from", arg |-> request,
                    res |-> got, log |-> TryFromLog(request),
                    debug |-> IF got.tag = "Ok" THEN DebugCredentials(got.credentials)
                              ELSE <<>>]
        /\ UNCHANGED <<counter, auths, handlers, HTTP_REQ_COUNTER, HTTP_REQ_HISTOGRAM, conn, run>>

\* The header names of the direct calls, as the caller spells them: the
\* hop-by-hop names in mixed and in lower case, and two end-to-end names.
NamesGiven ==
    {<<"P","r","o","x","y","-","A","u","t","h","e","n","t","i","c","a","t","e">>,
     <<"P","r","o","x","y","-","A","u","t","h","o","r","i","z","a","t","i","o","n">>,
     <<"C","o","n","n","e","c","t","i","o","n">>,
     <<"T","E">>,
     <<"T","r","a","i","l","e","r">>,
     <<"T","r","a","n","s","f","e","r","-","E","n","c","o","d","i","n","g">>,
     <<"U","p","g","r","a","d","e">>,
     <<"P","r","o","x","y","-","C","o","n","n","e","c","t","i","o","n">>,
     <<"K","e","e","p","-","A","l","i","v","e">>,
     <<"k","e","e","p","-","a","l","i","v","e">>,
     CONTENT_TYPE,
     X_ADDED}

\* The header maps of the direct calls: up to MaxHeaders entries appended in
\* turn, a name possibly several times; the value tells the entries apart.
HeaderMaps ==
    {[k \in 1..Len(names) |-> H(names[k], <<Digits[k + 1]>>)] :
        names \in SeqsUpTo(NamesGiven, MaxHeaders)}

\* remove_hop_by_hop_headers called on a header map, and once more on what
\* the first call left.
CallRemoveHopByHop(headers) ==
    /\ call = NoCall
    /\ call' = [fn |-> "remove_hop_by_hop_headers", arg |-> headers,
                res |-> remove_hop_by_hop_headers(headers),
                again |-> remove_hop_by_hop_headers(remove_hop_by_hop_headers(headers))]
    /\ UNCHANGED <<counter, auths, handlers, HTTP_REQ_COUNTER, HTTP_REQ_HISTOGRAM, conn, run>>

NextHttp ==
    \/ \E value \in {None} \cup {Some(v) : v \in HeaderValues} : CallTryFrom(value)
    \/ \E headers \in HeaderMaps : CallRemoveHopByHop(headers)

\* The extraction, or the header removal, called directly, once, with any
\* header value and any header map.
SpecHttp == InitAuth /\ [][NextHttp]_vars

\* ------------------------------------------------------------------ claims

\* The connection's flow id has been taken from the counter.
HasId(c) == conn[c].pc # "listen"

\* The id of the flow of connection c: the value fetch_add returned, which
\* Flow::new stores in the flow.
IdOf(c) == IF conn[c].pc = "Flow::new" THEN conn[c].id ELSE conn[c].flow.id

\* C1: for one Proxy and any interleaving of concurrent Flow::new calls, every
\* created flow has an id distinct from the id of every other created flow.
C1_FlowIdsDistinct ==
    \A a, b \in Conns : (a # b /\ HasId(a) /\ HasId(b)) => IdOf(a) # IdOf(b)

\* C1 witness: a second Flow::new ran to completion between the fetch_add and
\* the construction of the first.
C1_Witness ==
    \E a, b \in Conns :
        /\ conn[a].pc = "Flow::new" /\ conn[a].id = 0
        /\ conn[b].pc \notin {"listen", "Flow::new"} /\ conn[b].flow.id = 1

\* The calls of the current request of connection c with the given name, in
\* order.
Calls(c, name) ==
    LET Is(e) == e.ev = name
    IN  SelectSeq(conn[c].log, Is)

\* The nine hop-by-hop header names of the claims, as a HeaderName spells them.
NineHopNames ==
    {<<"p","r","o","x","y","-","a","u","t","h","e","n","t","i","c","a","t","e">>,
     <<"p","r","o","x","y","-","a","u","t","h","o","r","i","z","a","t","i","o","n">>,
     <<"c","o","n","n","e","c","t","i","o","n">>,
     <<"t","e">>,
     <<"t","r","a","i","l","e","r">>,
     <<"t","r","a","n","s","f","e","r","-","e","n","c","o","d","i","n","g">>,
     <<"u","p","g","r","a","d","e">>,
     <<"p","r","o","x","y","-","c","o","n","n","e","c","t","i","o","n">>,
     <<"k","e","e","p","-","a","l","i","v","e">>}

HasHopByHop(headers) ==
    \E k \in 1..Len(headers) : headers[k].name \in NineHopNames

\* C2: whatever DoNothing/Modify results the forward handlers returned (a
\* Modify adding hop-by-hop headers included), no request handed to the
\* outbound client carries one of the nine hop-by-hop header names.
C2_NoHopByHopToOrigin ==
    \A c \in Conns :
        \A k \in 1..Len(conn[c].log) :
            conn[c].log[k].ev = "client.request"
                => ~HasHopByHop(conn[c].log[k].arg.headers)

\* C2 witness: the request arrived with Proxy-Authorization and
\* Proxy-Connection, the last handler returned a Modify adding Connection and
\* Keep-Alive, and the request has been handed to the outbound client.
C2_Witness ==
    \E c \in Conns :
        LET on == Calls(c, "on_request")
        IN  /\ conn[c].pc = "client.request"
            /\ HasHopByHop(conn[c].hreq.headers)
            /\ Len(on) = 2
            /\ on[2].res.tag = "Modify"
            /\ HasHopByHop(on[2].res.val.headers)
            /\ Calls(c, "client.request") # <<>>

\* The request of connection c is on the proxy path and its authentication
\* pipeline is over: proxy() is past the loop over auths, or has returned or
\* panicked after the `if !auths.is_empty()`.
AuthFinished(c) ==
    \/ conn[c].pc \in {"auth_check", "on_request", "client.request",
                       "Response::from", "on_response"}
    \/ /\ conn[c].pc \in {"serve_end", "done", "closed", "panicked"}
       /\ conn[c].hreq.method # "CONNECT"
       /\ \/ Calls(c, "Credentials::try_from") # <<>>
          \/ Calls(c, "on_request") # <<>>
          \/ Calls(c, "client.request") # <<>>

\* The credentials the Proxy-Authorization header of the request, as it
\* arrived, splits into.
Extracted(c) == CredentialsTryFrom(RequestFrom(conn[c].hreq))

\* The authenticate calls of the current request that returned Ok.
OkCalls(c) ==
    LET IsOk(e) == e.res.tag = "Ok"
    IN  SelectSeq(Calls(c, "authenticate"), IsOk)

\* C3: at every point after the authentication pipeline has finished,
\* flow.auth is Some(c) exactly if a configured authenticator returned Ok for
\* the extracted credentials c in this request, and None if none did (or
\* auths is empty).
C3_AuthIffSomeOk ==
    \A c \in Conns :
        AuthFinished(c) =>
            IF OkCalls(c) = <<>>
            THEN conn[c].f.auth = None
            ELSE /\ auths # <<>>
                 /\ Extracted(c).tag = "Ok"
                 /\ conn[c].f.auth = Some(Extracted(c).credentials)
                 /\ \A k \in 1..Len(OkCalls(c)) :
                        /\ OkCalls(c)[k].arg = Extracted(c).credentials
                        /\ OkCalls(c)[k].i \in 1..Len(auths)
                        /\ Authenticate(auths[OkCalls(c)[k].i], Extracted(c).credentials) = AuthOk

\* C3 witness: the first authenticator returned Err, the second Ok, and the
\* request is in the handler chain with flow.auth set.
C3_Witness ==
    \E c \in Conns :
        /\ conn[c].pc = "on_request"
        /\ Len(Calls(c, "authenticate")) = 2
        /\ Calls(c, "authenticate")[1].res.tag = "Err"
        /\ Calls(c, "authenticate")[2].res.tag = "Ok"
        /\ conn[c].f.auth # None

\* Credentials were extracted and the loop over auths has been left: by the
\* `break`, or after its last turn.
AuthLoopLeft(c) ==
    LET au == Calls(c, "authenticate")
    IN  /\ AuthFinished(c)
        /\ Calls(c, "Credentials::try_from") # <<>>
        /\ Calls(c, "Credentials::try_from")[1].res.tag = "Ok"
        /\ au # <<>> => au[Len(au)].res.tag # "Panic"

\* C4: authenticators are invoked one at a time in declared order from the
\* first; one that returns Err is followed by the next; after the first Ok
\* none is invoked; so once the loop is left the number of calls is the
\* position of the first Ok, or the length of auths if none returned Ok.
C4_AuthOrder ==
    \A c \in Conns :
        LET au == Calls(c, "authenticate")
            n == Len(au)
        IN  /\ \A k \in 1..n : au[k].i = k /\ au[k].arg = conn[c].credentials
            /\ n <= Len(auths)
            /\ \A k \in 1..(n - 1) : au[k].res.tag = "Err"
            /\ AuthLoopLeft(c) =>
                  /\ n >= 1
                  /\ \/ au[n].res.tag = "Ok"
                     \/ au[n].res.tag = "Err" /\ n = Len(auths)
                  /\ \A k \in 1..n :
                        au[k].res = Authenticate(auths[k], Extracted(c).credentials)

\* C4 witness: with two authenticators, the first returned Ok and the loop
\* was left after that one call.
C4_Witness ==
    \E c \in Conns :
        /\ Len(auths) = 2
        /\ AuthLoopLeft(c)
        /\ Len(Calls(c, "authenticate")) = 1
        /\ Calls(c, "authenticate")[1].res.tag = "Ok"

\* Every configured authenticator was called in this request and returned Err.
AllReturnedErr(c) ==
    LET au == Calls(c, "authenticate")
    IN  /\ auths # <<>>
        /\ Len(au) = Len(auths)
        /\ \A k \in 1..Len(au) : au[k].res.tag = "Err"

\* 407 with the header Proxy-Authenticate: Bearer and an empty body.
Is407(hresp) ==
    /\ hresp.status = 407
    /\ hresp.headers = <<[name |-> <<"p","r","o","x","y","-","a","u","t","h","e","n","t","i","c","a","t","e">>,
                          value |-> <<"B","e","a","r","e","r">>]>>
    /\ hresp.body = ""

\* C5: when auths is non-empty, credentials were extracted and every
\* authenticator returned Err, the request ends with 407, the header
\* Proxy-Authenticate: Bearer and an empty body; no handler is invoked and no
\* request is sent to the origin.
C5_AllErrGives407 ==
    \A c \in Conns :
        AllReturnedErr(c) =>
            /\ conn[c].pc \in {"auth_check", "serve_end", "done"}
            /\ conn[c].pc \in {"serve_end", "done"} =>
                  conn[c].ret.tag = "Ok" /\ Is407(conn[c].ret.val)
            /\ conn[c].pc = "done" =>
                  conn[c].result.tag = "Ok" /\ Is407(conn[c].result.val)
            /\ Calls(c, "on_request") = <<>>
            /\ Calls(c, "on_response") = <<>>
            /\ Calls(c, "client.request") = <<>>

\* C5 witness: two authenticators both returned Err and the client got 407.
C5_Witness ==
    \E c \in Conns :
        /\ Len(auths) = 2
        /\ AllReturnedErr(c)
        /\ conn[c].pc = "done"
        /\ conn[c].result.tag = "Ok"
        /\ conn[c].result.val.status = 407

\* The extraction of credentials fails as the claim describes it: there is no
\* Proxy-Authorization header, or its value does not split into exactly two
\* whitespace-separated tokens.
NotTwoTokens(hreq) ==
    LET got == HeaderGet(hreq.headers, PROXY_AUTHORIZATION)
    IN  got = None \/ Len(split_whitespace(got[1])) # 2

\* proxy() has run `Credentials::try_from(&req)` for the request of c.
ExtractionDone(c) ==
    /\ conn[c].pc \notin {"listen", "Flow::new", "idle", "connect", "proxy",
                          "Request::from", "auth"}
    /\ conn[c].hreq.method # "CONNECT"
    /\ Calls(c, "Request::from") # <<>>
    /\ auths # <<>>

Is400BadCredentials(ret) ==
    /\ ret.tag = "Ok"
    /\ ret.val.status = 400
    /\ ret.val.body = "invalid proxy auth credentials"

\* C6: when auths is non-empty and the extraction of credentials fails (no
\* Proxy-Authorization header, or a value that is not exactly two tokens), the
\* request ends with 400 and the body "invalid proxy auth credentials"; no
\* authenticator or handler is invoked and no request is sent to the origin.
C6_BadCredentialsGive400 ==
    \A c \in Conns :
        (ExtractionDone(c) /\ NotTwoTokens(conn[c].hreq)) =>
            /\ conn[c].pc \in {"serve_end", "done"}
            /\ Is400BadCredentials(conn[c].ret)
            /\ conn[c].pc = "done" => Is400BadCredentials(conn[c].result)
            /\ Calls(c, "authenticate") = <<>>
            /\ Calls(c, "on_request") = <<>>
            /\ Calls(c, "on_response") = <<>>
            /\ Calls(c, "client.request") = <<>>

\* The hyper response serve() hands to the client for the internal response
\* v: its status, version, headers and body, and nothing else.
Delivers(ret, v) ==
    /\ ret.tag = "Ok"
    /\ ret.val.status = v.status
    /\ ret.val.version = v.version
    /\ ret.val.headers = v.headers
    /\ ret.val.body = v.payload

\* proxy() has returned and serve() is recording the duration, or serve()
\* has handed the result to the connection.
Returned(c) ==
    /\ conn[c].pc \in {"serve_end", "done"}
    /\ conn[c].pc = "done" => conn[c].result = conn[c].ret

\* C7: if handler i is the first whose on_request returns Reply(resp), the
\* client receives exactly resp, nothing is sent to the origin, no on_request
\* of a later handler is invoked and no on_response of any handler is
\* invoked for that request: the Reply is the last call of the request, and
\* before it there are only calls of the earlier handlers' on_request.
C7_ReplyEndsRequest ==
    \A c \in Conns :
        LET log == conn[c].log
        IN  \A k \in 1..Len(log) :
                (log[k].ev = "on_request" /\ log[k].res.tag = "Reply") =>
                    /\ k = Len(log)
                    /\ \A j \in 1..(k - 1) :
                           /\ log[j].ev \notin {"client.request", "client.response",
                                                "on_response"}
                           /\ log[j].ev = "on_request" =>
                                  /\ log[j].i < log[k].i
                                  /\ log[j].res.tag # "Reply"
                    /\ Returned(c)
                    /\ Delivers(conn[c].ret, log[k].res.val)

\* C7 witness: with two handlers, the first returned Reply and the client
\* has got the 418 it carried; the second handler was never called.
C7_Witness ==
    \E c \in Conns :
        /\ Len(handlers) = 2
        /\ conn[c].pc = "done"
        /\ Len(Calls(c, "on_request")) = 1
        /\ Calls(c, "on_request")[1].i = 1
        /\ Calls(c, "on_request")[1].res.tag = "Reply"
        /\ conn[c].result.tag = "Ok"
        /\ conn[c].result.val.status = 418

\* The value a chain works on when its k-th call is made: the value of the
\* latest Modify among the calls before it, or `first` if none modified.
Current(calls, k, first) ==
    LET M == {j \in 1..(k - 1) : calls[j].res.tag = "Modify"}
    IN  IF M = {} THEN first
        ELSE calls[CHOOSE j \in M : \A x \in M : x <= j].res.val

\* The headers whose name is none of the nine hop-by-hop names.
WithoutNine(headers) ==
    LET Keep(h) == h.name \notin NineHopNames
    IN  SelectSeq(headers, Keep)

\* C8: the k-th on_request call is on handler k and gets the request of the
\* latest Modify before it, or the buffered request if none modified
\* (DoNothing changes nothing); when a request is sent to the origin no
\* handler returned Reply, every handler was called exactly once, and what is
\* sent is the current request after the last handler without its hop-by-hop
\* headers.
C8_ForwardChain ==
    \A c \in Conns :
        LET R == Calls(c, "on_request")
            B == Calls(c, "Request::from")
            S == Calls(c, "client.request")
            last == Current(R, Len(R) + 1, B[1].arg)
        IN  /\ R # <<>> =>
                /\ Len(B) = 1
                /\ B[1].arg.method = conn[c].hreq.method
                /\ B[1].arg.uri = conn[c].hreq.uri
                /\ B[1].arg.version = conn[c].hreq.version
                /\ B[1].arg.headers = conn[c].hreq.headers
                /\ B[1].arg.payload = conn[c].hreq.body
            /\ Len(R) <= Len(handlers)
            /\ \A k \in 1..Len(R) :
                   /\ R[k].i = k
                   /\ R[k].arg = Current(R, k, B[1].arg)
            /\ S # <<>> =>
                /\ Len(S) = 1
                /\ Len(B) = 1
                /\ Len(R) = Len(handlers)
                /\ \A k \in 1..Len(R) : R[k].res.tag \in {"DoNothing", "Modify"}
                /\ S[1].arg.method = last.method
                /\ S[1].arg.uri = last.uri
                /\ S[1].arg.version = last.version
                /\ S[1].arg.body = last.payload
                /\ S[1].arg.headers = WithoutNine(last.headers)

\* C8 witness: the first of two handlers returned a Modify adding X-Added: 1,
\* the second returned DoNothing, and the request sent to the origin carries
\* X-Added: 1 but not the Proxy-Authorization it arrived with.
C8_Witness ==
    \E c \in Conns :
        LET R == Calls(c, "on_request")
            S == Calls(c, "client.request")
        IN  /\ Len(handlers) = 2
            /\ Len(R) = 2
            /\ R[1].res.tag = "Modify"
            /\ R[2].res.tag = "DoNothing"
            /\ HeaderContains(conn[c].hreq.headers, PROXY_AUTHORIZATION)
            /\ S # <<>>
            /\ HeaderContains(S[1].arg.headers, X_ADDED)
            /\ ~HeaderContains(S[1].arg.headers, PROXY_AUTHORIZATION)

\* C9: the k-th on_response call is on handler k, index 0 of the code first,
\* and gets the response of the latest Modify before it, or the buffered
\* upstream response if none modified; a Replace(resp') is the last call of
\* the request and resp' is what the client receives; when the chain ran to
\* its end without a Replace every handler was called once and the client
\* receives the current response after the last handler.
C9_ReverseChain ==
    \A c \in Conns :
        LET V == Calls(c, "on_response")
            B == Calls(c, "Response::from")
            log == conn[c].log
            replaced == V # <<>> /\ V[Len(V)].res.tag = "Replace"
        IN  /\ V # <<>> => Len(B) = 1
            /\ Len(V) <= Len(handlers)
            /\ \A k \in 1..Len(V) :
                   /\ V[k].i = k
                   /\ V[k].arg = Current(V, k, B[1].arg)
                   /\ V[k].res.tag = "Replace" =>
                          /\ k = Len(V)
                          /\ log[Len(log)] = V[k]
                          /\ Returned(c)
                          /\ Delivers(conn[c].ret, V[k].res.val)
            /\ (B # <<>> /\ ~replaced /\ conn[c].pc \in {"serve_end", "done"}) =>
                   /\ Len(V) = Len(handlers)
                   /\ \A k \in 1..Len(V) : V[k].res.tag \in {"DoNothing", "Modify"}
                   /\ Returned(c)
                   /\ Delivers(conn[c].ret, Current(V, Len(V) + 1, B[1].arg))

\* C9 witness: with two handlers, the first on_response returned a Modify
\* and the second a Replace, which the client has received.
C9_Witness ==
    \E c \in Conns :
        LET V == Calls(c, "on_response")
        IN  /\ Len(handlers) = 2
            /\ conn[c].pc = "done"
            /\ Len(V) = 2
            /\ V[1].res.tag = "Modify"
            /\ V[2].res.tag = "Replace"
            /\ V[2].arg = V[1].res.val
            /\ conn[c].result.val.status = 203

\* The place of a call in the sequence of steps of proxy().
StepRank(ev) ==
    CASE ev = "Request::from" -> 1
      [] ev = "Credentials::try_from" -> 2
      [] ev = "authenticate" -> 3
      [] ev = "on_request" -> 4
      [] ev = "client.request" -> 5
      [] ev \in {"client.response", "client.error"} -> 6
      [] ev = "Response::from" -> 7
      [] ev = "on_response" -> 8

\* C10: the calls of one request follow the order of the steps. Before the
\* first on_request authentication is complete: with authenticators
\* configured, the last authenticate call returned Ok and the handler sees
\* flow.auth set. Before the outbound call every handler's on_request has
\* returned. Before the first on_response the upstream response has arrived
\* and has been buffered into the Response the handler gets.
C10_StepsSequential ==
    \A c \in Conns :
        LET log == conn[c].log
            A == Calls(c, "authenticate")
            R == Calls(c, "on_request")
        IN  /\ \A j, k \in 1..Len(log) :
                   j < k => StepRank(log[j].ev) <= StepRank(log[k].ev)
            /\ \A k \in 1..Len(log) :
                   /\ log[k].ev = "on_request" =>
                          /\ auths = <<>> => log[k].flow.auth = None
                          /\ auths # <<>> =>
                                 /\ A # <<>>
                                 /\ A[Len(A)].res.tag = "Ok"
                                 /\ log[k].flow.auth = Some(A[Len(A)].arg)
                   /\ log[k].ev = "client.request" =>
                          /\ Len(R) = Len(handlers)
                          /\ \A j \in 1..(k - 1) : log[j].ev # "client.request"
                   /\ log[k].ev = "on_response" =>
                          /\ k > 3
                          /\ \E j \in 2..(k - 1) :
                                 /\ log[j].ev = "Response::from"
                                 /\ log[j - 1].ev = "client.response"
                                 /\ log[j].arg.payload = log[j - 1].arg.body
                                 /\ log[k].i = 1 => log[k].arg = log[j].arg

\* C10 witness: a request went through every step: an authenticator returned
\* Ok, two handlers saw the request, the origin answered, and the two
\* handlers saw the buffered response before the client got it.
C10_Witness ==
    \E c \in Conns :
        /\ conn[c].pc = "done"
        /\ Len(handlers) = 2
        /\ Len(Calls(c, "authenticate")) >= 1
        /\ Len(Calls(c, "on_request")) = 2
        /\ Len(Calls(c, "client.request")) = 1
        /\ Len(Calls(c, "Response::from")) = 1
        /\ Len(Calls(c, "on_response")) = 2

\* The request of connection c is a plain forward: no authenticators, no
\* handlers, not a CONNECT, and an absolute URI.
PlainForward(c) ==
    /\ auths = <<>>
    /\ handlers = <<>>
    /\ conn[c].pc \notin {"listen", "Flow::new", "idle"}
    /\ conn[c].hreq.method # "CONNECT"
    /\ conn[c].hreq.uri.scheme # ""
    /\ conn[c].hreq.uri.authority # None

\* C11: with no authenticators and no handlers, a non-CONNECT request with
\* an absolute URI is never sent to the origin twice, and once proxy() has
\* returned a response it was sent exactly once and the client receives the
\* status and the body of the origin's response.
C11_PlainForward ==
    \A c \in Conns :
        PlainForward(c) =>
            LET S == Calls(c, "client.request")
                O == Calls(c, "client.response")
            IN  /\ Len(S) <= 1
                /\ Len(O) <= Len(S)
                /\ Calls(c, "authenticate") = <<>>
                /\ (conn[c].pc \in {"serve_end", "done"} /\ conn[c].ret.tag = "Ok") =>
                       /\ Len(S) = 1
                       /\ Len(O) = 1
                       /\ S[1].arg.uri = conn[c].hreq.uri
                       /\ S[1].arg.method = conn[c].hreq.method
                       /\ conn[c].ret.val.status = O[1].arg.status
                       /\ conn[c].ret.val.body = O[1].arg.body
                       /\ Returned(c)

\* C11 witness: the client of a plain forward has received the origin's 200
\* with body "Good Evening", and the request counter was incremented.
C11_Witness ==
    \E c \in Conns :
        /\ PlainForward(c)
        /\ conn[c].pc = "done"
        /\ conn[c].result.tag = "Ok"
        /\ conn[c].result.val.status = 200
        /\ conn[c].result.val.body = "Good Evening"
        /\ HTTP_REQ_COUNTER >= 1

\* serve() has been entered for a CONNECT request on connection c.
IsConnect(c) ==
    /\ conn[c].pc \notin {"listen", "Flow::new", "idle"}
    /\ conn[c].hreq.method = "CONNECT"

\* connect() has returned for the request of connection c.
ConnectReturned(c) == IsConnect(c) /\ conn[c].pc # "connect"

\* C12: for a CONNECT request, whatever auths and handlers are configured,
\* no credentials are extracted, no authenticator and no handler is called
\* and flow.auth stays None; with an authority in the target the answer is
\* 200, also when authenticators are configured and the request has no
\* Proxy-Authorization header.
C12_ConnectBypasses ==
    \A c \in Conns :
        IsConnect(c) =>
            /\ conn[c].log = <<>>
            /\ conn[c].f.auth = None
            /\ conn[c].pc \in {"connect", "serve_end", "done", "upgrading"}
            /\ (ConnectReturned(c) /\ conn[c].hreq.uri.authority # None) =>
                   /\ conn[c].ret.tag = "Ok"
                   /\ conn[c].ret.val.status = 200
                   /\ conn[c].pc # "serve_end" => conn[c].result = conn[c].ret

\* C12 witness: two authenticators and two handlers are configured, the
\* CONNECT carries no Proxy-Authorization header, and it was answered 200.
C12_Witness ==
    \E c \in Conns :
        /\ IsConnect(c)
        /\ Len(auths) = 2
        /\ Len(handlers) = 2
        /\ ~HeaderContains(conn[c].hreq.headers, PROXY_AUTHORIZATION)
        /\ conn[c].pc = "upgrading"
        /\ conn[c].result.tag = "Ok"
        /\ conn[c].result.val.status = 200

\* C13: a CONNECT whose target has no authority, or an authority that is not
\* host:port, is answered 400 "CONNECT must be to a socket address." and
\* starts no tunnel task; any other CONNECT is answered 200 with an empty
\* body.
C13_ConnectSocketAddr ==
    \A c \in Conns :
        ConnectReturned(c) =>
            /\ conn[c].ret.tag = "Ok"
            /\ IF conn[c].hreq.uri.authority = None \/ conn[c].hreq.uri.port = None
               THEN /\ conn[c].ret.val.status = 400
                    /\ conn[c].ret.val.body = "CONNECT must be to a socket address."
                    /\ conn[c].tunnel = "none"
               ELSE /\ conn[c].ret.val.status = 200
                    /\ conn[c].ret.val.body = ""

\* C14: on an accepted CONNECT the TCP connection to the authority is
\* attempted only by a task whose upgrade succeeded; after a failed upgrade
\* the task does nothing more; an established tunnel copies until it closes
\* or fails; and an error at any stage ends the task without touching the
\* response: the 200 is the only response on the connection, which never
\* goes back to serving requests.
C14_TunnelAfterUpgrade ==
    [][\A c \in Conns :
          LET t == conn[c].tunnel
              u == conn'[c].tunnel
          IN  /\ (u # t /\ u \in {"connected", "server io error"}) =>
                     t \in {"upgraded", "connected"}
              /\ (u # t /\ u = "connected") => t = "upgraded"
              /\ (u # t /\ u = "upgraded") => t = "spawned"
              /\ (u # t /\ u = "closed") => t = "connected"
              /\ t \in {"upgrade error", "server io error", "closed"} => u = t
              /\ t # "none" =>
                     /\ conn[c].ret.tag = "Ok"
                     /\ conn[c].ret.val.status = 200
                     /\ conn'[c].ret = conn[c].ret
              /\ conn[c].pc = "upgrading" =>
                     /\ conn'[c].pc = "upgrading"
                     /\ conn'[c].result = conn[c].result
                     /\ conn[c].result = conn[c].ret
                     /\ u # "none"
    ]_vars

\* C14 witness: the client got the 200, the connection was upgraded, the
\* tunnel to the authority was connected and has copied until close.
C14_Witness ==
    \E c \in Conns :
        /\ conn[c].pc = "upgrading"
        /\ conn[c].tunnel = "closed"
        /\ conn[c].result.tag = "Ok"
        /\ conn[c].result.val.status = 200

\* proxy() is past its first statement for a request whose URI has no host.
NoHostPastCheck(c) ==
    /\ conn[c].pc \notin {"listen", "Flow::new", "idle", "proxy"}
    /\ conn[c].hreq.method # "CONNECT"
    /\ conn[c].hreq.uri.authority = None

\* C15: a non-CONNECT request whose URI has no host is answered 400, and no
\* authenticator, handler or outbound call is made for it.
C15_NoHostGives400 ==
    \A c \in Conns :
        NoHostPastCheck(c) =>
            /\ conn[c].log = <<>>
            /\ conn[c].pc \in {"serve_end", "done"}
            /\ conn[c].ret.tag = "Ok"
            /\ conn[c].ret.val.status = 400

\* serve() has been entered on connection c and has not yet handed back a
\* result: the request is in flight.
InServe(c) ==
    conn[c].pc \notin {"listen", "Flow::new", "idle", "done", "closed", "upgrading",
                       "panicked"}

\* C16: every request that entered serve() incremented the request counter
\* once, and every request whose path has ended, however it ended, has been
\* observed once by the duration histogram: the two metrics differ by the
\* number of requests still inside serve().
C16_MetricsOncePerRequest ==
    HTTP_REQ_COUNTER = HTTP_REQ_HISTOGRAM + Cardinality({c \in Conns : InServe(c)})

\* The last call of the request of connection c is a handler call that
\* panicked.
HandlerPanicked(c) ==
    LET log == conn[c].log
    IN  /\ log # <<>>
        /\ log[Len(log)].ev \in {"on_request", "on_response"}
        /\ log[Len(log)].res.tag = "Panic"

\* C17: a handler that panics in on_request or on_response counts as
\* DoNothing: the current request or response is the one the handler was
\* given, the chain goes on with the next handler, and the request is not
\* aborted.
C17_HandlerPanicIsDoNothing ==
    \A c \in Conns :
        HandlerPanicked(c) =>
            LET last == conn[c].log[Len(conn[c].log)]
            IN  /\ conn[c].pc = last.ev
                /\ conn[c].i = last.i + 1
                /\ last.ev = "on_request" => conn[c].req = last.arg
                /\ last.ev = "on_response" => conn[c].resp = last.arg

\* C18: for a Basic scheme (in any case) with credentials that are not valid
\* base64, HTTPBasic.authenticate returns Err(InvalidFormat), the loop goes
\* on with the next authenticator, and the request ends with 400 or 407.
C18_UndecodableBasicIsErr ==
    \A c \in Conns :
        \A k \in 1..Len(conn[c].log) :
            LET e == conn[c].log[k]
            IN  (/\ e.ev = "authenticate"
                 /\ auths[e.i].kind = "HTTPBasic"
                 /\ to_lowercase(e.arg.scheme) = <<"b","a","s","i","c">>
                 /\ ~b64_valid(e.arg.credentials)) =>
                    /\ e.res.tag = "Err"
                    /\ e.res.err = "InvalidFormat"
                    /\ conn[c].pc # "panicked"
                    /\ conn[c].pc \in {"serve_end", "done"} =>
                           /\ conn[c].ret.tag = "Ok"
                           /\ conn[c].ret.val.status \in {400, 407}

\* The scheme is `word` in some mix of upper and lower case.
AnyCase(scheme, word) ==
    /\ Len(scheme) = Len(word)
    /\ \A k \in 1..Len(word) :
           \/ scheme[k] = word[k]
           \/ InSeq(word[k], Lower) /\ scheme[k] = Upper[IndexOf(word[k], Lower)]

\* The positions of the colons in a text.
Colons(text) == {k \in 1..Len(text) : text[k] = ":"}

\* What C19 says HTTPBasic(username, password) returns for a scheme and a
\* decoded text: the text has one field more than it has colons.
C19_Expected(self, scheme, text) ==
    LET n == Cardinality(Colons(text)) + 1
        k == CHOOSE x \in Colons(text) : TRUE
    IN  IF ~AnyCase(scheme, <<"b","a","s","i","c">>) THEN "InvalidScheme"
        ELSE IF n # 2 THEN "InvalidFormat"
        ELSE IF /\ SubSeq(text, 1, k - 1) = self.username
                /\ SubSeq(text, k + 1, Len(text)) = self.password
        THEN "Ok"
        ELSE "NotAuthenticated"

\* The outcome of a call, by name.
Outcome(res) == IF res.tag = "Err" THEN res.err ELSE res.tag

\* C19: for validly encoded credentials HTTPBasic.authenticate returns
\* InvalidScheme if the lower-cased scheme is not "basic"; otherwise
\* InvalidFormat{n} if the decoded text, split on ":" with empty fields kept,
\* has n # 2 fields; otherwise Ok if the two fields are the configured
\* username and password, and NotAuthenticated if not.
C19_BasicResult ==
    (call.fn = "HTTPBasic::authenticate" /\ call.valid) =>
        /\ Outcome(call.res) = C19_Expected(call.self, call.arg.scheme, call.text)
        /\ Outcome(call.res) = "InvalidFormat" =>
               call.res.n = Cardinality(Colons(call.text)) + 1

\* C20: HTTPBearer.authenticate returns InvalidScheme with the scheme as
\* given and "bearer" as the expected one if the lower-cased scheme is not
\* "bearer"; otherwise Ok exactly if the credentials string is the
\* configured token, and NotAuthenticated if it is not.
C20_BearerResult ==
    call.fn = "HTTPBearer::authenticate" =>
        IF ~AnyCase(call.arg.scheme, <<"b","e","a","r","e","r">>)
        THEN /\ Outcome(call.res) = "InvalidScheme"
             /\ call.res.got = call.arg.scheme
             /\ call.res.expect = <<"b","e","a","r","e","r">>
        ELSE IF call.arg.credentials = call.self.token
        THEN Outcome(call.res) = "Ok"
        ELSE Outcome(call.res) = "NotAuthenticated"

\* C20 witness: HTTPBearer with a three-character token was called with the
\* scheme in mixed case and that token, and returned Ok.
C20_Witness ==
    /\ call.fn = "HTTPBearer::authenticate"
    /\ call.arg.scheme = <<"B","E","A","r","e","r">>
    /\ Len(call.self.token) = 3
    /\ call.arg.credentials = call.self.token
    /\ call.res.tag = "Ok"

\* The positions of a header value where a token starts: a character that is
\* neither space nor tab, at the start or after a space or tab.
TokenStarts(value) ==
    {k \in 1..Len(value) :
        /\ value[k] \notin {" ", "\t"}
        /\ k = 1 \/ value[k - 1] \in {" ", "\t"}}

\* The token that starts at position k: up to the next space or tab.
TokenAt(value, k) ==
    LET Ends == {e \in k..Len(value) :
                    /\ \A j \in k..e : value[j] \notin {" ", "\t"}
                    /\ e = Len(value) \/ value[e + 1] \in {" ", "\t"}}
    IN  SubSeq(value, k, CHOOSE e \in Ends : TRUE)

\* C21: the extraction returns MissingHeader without a Proxy-Authorization
\* header; with one, it returns the first and the second token of the value,
\* as they are, if whitespace runs split it into exactly two tokens, and
\* InvalidFormat{n} with the number n of tokens otherwise.
C21_ExtractionResult ==
    call.fn = "Credentials::try_from" =>
        IF Len(call.arg.headers) = 1
        THEN call.res.tag = "Err" /\ call.res.err = "MissingHeader"
        ELSE LET value == call.arg.headers[2].value
                 starts == TokenStarts(value)
                 first == CHOOSE k \in starts : \A j \in starts : k <= j
                 second == CHOOSE k \in starts : \A j \in starts : j <= k
             IN  IF Cardinality(starts) = 2
                 THEN /\ call.res.tag = "Ok"
                      /\ call.res.credentials.scheme = TokenAt(value, first)
                      /\ call.res.credentials.credentials = TokenAt(value, second)
                 ELSE /\ call.res.tag = "Err"
                      /\ call.res.err = "InvalidFormat"
                      /\ call.res.n = Cardinality(starts)

\* C22: after remove_hop_by_hop_headers no entry of the map has one of the
\* nine hop-by-hop names, however the caller spelled the name and however
\* often it occurred.
C22_NoHopByHopLeft ==
    call.fn = "remove_hop_by_hop_headers" => ~HasHopByHop(call.res)

\* C22 witness: the map given held Proxy-Authenticate twice and Keep-Alive
\* once, and the call has returned a map.
C22_Witness ==
    /\ call.fn = "remove_hop_by_hop_headers"
    /\ Len(call.arg) = 3
    /\ Cardinality({k \in 1..3 : call.arg[k].name = PROXY_AUTHENTICATE}) = 2
    /\ \E k \in 1..3 : call.arg[k].name = <<"k","e","e","p","-","a","l","i","v","e">>
    /\ call.res = <<>>

\* C23: remove_hop_by_hop_headers applied to its own result changes nothing.
C23_RemoveIdempotent ==
    call.fn = "remove_hop_by_hop_headers" => call.again = call.res

\* C23 witness: the map given held two hop-by-hop entries around an
\* end-to-end one, which is all that both calls left.
C23_Witness ==
    /\ call.fn = "remove_hop_by_hop_headers"
    /\ Len(call.arg) = 3
    /\ HasHopByHop(<<call.arg[1]>>)
    /\ call.arg[2].name = CONTENT_TYPE
    /\ HasHopByHop(<<call.arg[3]>>)
    /\ call.res = <<call.arg[2]>>
    /\ call.again = <<call.arg[2]>>

\* The internal request `request` is the one the hyper request `sent` was
\* made from.
SentAs(request, sent) ==
    /\ sent.method = request.method
    /\ sent.uri = request.uri
    /\ sent.version = request.version
    /\ sent.headers = request.headers
    /\ sent.body = request.payload

\* C24, as stated: the Response built from the upstream reply carries the
\* request handed to the first reverse handler, and with no handlers the
\* original buffered Request.
C24_ResponseCarriesBuffered ==
    \A c \in Conns :
        LET B == Calls(c, "Request::from")
            F == Calls(c, "Response::from")
            V == Calls(c, "on_response")
        IN  F # <<>> =>
                /\ V # <<>> => V[1].arg.request = F[1].arg.request
                /\ handlers = <<>> => F[1].arg.request = B[1].arg

\* C24, amended: the Response built from the upstream reply carries the
\* request that was sent to the origin, which is the current request after
\* the last forward handler without its hop-by-hop headers (with no
\* handlers: the buffered request without its hop-by-hop headers), and this
\* is the response, request included, handed to the first reverse handler.
C24_ResponseCarriesSent ==
    \A c \in Conns :
        LET B == Calls(c, "Request::from")
            R == Calls(c, "on_request")
            S == Calls(c, "client.request")
            F == Calls(c, "Response::from")
            V == Calls(c, "on_response")
            last == Current(R, Len(R) + 1, B[1].arg)
        IN  F # <<>> =>
                /\ Len(F) = 1
                /\ Len(S) = 1
                /\ SentAs(F[1].arg.request, S[1].arg)
                /\ F[1].arg.request = [last EXCEPT !.headers = WithoutNine(last.headers)]
                /\ V # <<>> => V[1].arg = F[1].arg

\* C24 witness: with no handlers, a request that arrived with
\* Proxy-Authorization was answered by the origin, and the Response built
\* carries the request without that header.
C24_Witness ==
    \E c \in Conns :
        LET F == Calls(c, "Response::from")
        IN  /\ handlers = <<>>
            /\ F # <<>>
            /\ HeaderContains(conn[c].hreq.headers, PROXY_AUTHORIZATION)
            /\ ~HeaderContains(F[1].arg.request.headers, PROXY_AUTHORIZATION)
            /\ HeaderContains(F[1].arg.request.headers, CONTENT_TYPE)

\* The request of the direct call with another Proxy-Authorization value.
WithValue(request, value) ==
    [request EXCEPT !.headers = <<request.headers[1], H(PROXY_AUTHORIZATION, value)>>]

\* Two credentials that differ in the credentials token only and have the
\* same outcome with every authenticator.
SameButToken(c1, c2) ==
    /\ c1.scheme = c2.scheme
    /\ c1.credentials # c2.credentials
    /\ \A ab \in Authenticators :
           LET r1 == Authenticate(ab, c1)
               r2 == Authenticate(ab, c2)
           IN  r1.tag = r2.tag /\ (r1.tag = "Err" => r1.err = r2.err)

\* C26: the credentials string shows in no log record and in no Debug
\* rendering: for a request whose credentials were extracted, any request
\* that differs in the credentials token only, with the same authentication
\* outcome, gives the same log records and the same rendering.
C26_OutputHidesCredentials ==
    (call.fn = "Credentials::try_from" /\ call.res.tag = "Ok") =>
        \A value \in HeaderValues :
            LET other == WithValue(call.arg, value)
                got == CredentialsTryFrom(other)
            IN  (got.tag = "Ok" /\ SameButToken(call.res.credentials, got.credentials)) =>
                    /\ TryFromLog(other) = call.log
                    /\ DebugCredentials(got.credentials) = call.debug

\* The handler calls of the request of connection c, in order.
HandlerCalls(c) ==
    LET Is(e) == e.ev \in {"on_request", "on_response"}
    IN  SelectSeq(conn[c].log, Is)

\* C25: within one request flow.auth starts as None; it is written at most
\* once, from None to Some, by the loop over auths and before any handler is
\* called; and every on_request and on_response call of the request is given
\* the same flow.auth and the same flow id, the id of the connection.
C25_AuthWrittenOnce ==
    [][\A c \in Conns :
          LET r == conn[c]
              n == conn'[c]
              served == r.pc \in {"idle", "done"} /\ n.pc \in {"proxy", "connect"}
              within == r.pc \notin {"listen", "Flow::new", "idle"} /\ ~served
          IN  /\ served => n.f.auth = None /\ n.f.id = n.flow.id
              /\ (within /\ n.f.auth # r.f.auth) =>
                     /\ r.f.auth = None
                     /\ r.pc = "authenticate"
                     /\ HandlerCalls(c)' = <<>>
              /\ within => n.f.id = r.f.id
              /\ n.pc \notin {"listen", "Flow::new", "idle"} =>
                     \A k \in 1..Len(HandlerCalls(c)') :
                         /\ HandlerCalls(c)'[k].flow = n.f
                         /\ HandlerCalls(c)'[k].flow.id = n.flow.id
    ]_vars

\* C25 witness: flow.auth was written, two on_request calls and two
\* on_response calls were made, and the client has got the response.
C25_Witness ==
    \E c \in Conns :
        /\ conn[c].pc = "done"
        /\ conn[c].f.auth # None
        /\ Len(Calls(c, "on_request")) = 2
        /\ Len(Calls(c, "on_response")) = 2

\* C27: when the outbound call fails, proxy() returns the failure as the
\* transport error, no on_response is called for the request, and serve()
\* observes the duration before it hands the error back.
C27_TransportErrorReturned ==
    \A c \in Conns :
        LET log == conn[c].log
        IN  Calls(c, "client.error") # <<>> =>
                /\ log[Len(log)].ev = "client.error"
                /\ Calls(c, "on_response") = <<>>
                /\ Calls(c, "Response::from") = <<>>
                /\ conn[c].ret = Err("hyper::Error")
                /\ conn[c].pc \in {"serve_end", "closed"}
                /\ conn[c].pc = "serve_end" =>
                       /\ conn[c].result = Pending
                       /\ HTTP_REQ_HISTOGRAM = HTTP_REQ_COUNTER - 1
                /\ conn[c].pc = "closed" =>
                       /\ conn[c].result = Err("hyper::Error")
                       /\ HTTP_REQ_HISTOGRAM = HTTP_REQ_COUNTER

\* C27 witness: with two handlers configured, the outbound call of the second
\* request on the connection failed, and serve() has returned the error with
\* both durations observed.
C27_Witness ==
    \E c \in Conns :
        /\ Len(handlers) = 2
        /\ Len(Calls(c, "on_request")) = 2
        /\ Calls(c, "client.error") # <<>>
        /\ conn[c].pc = "closed"
        /\ conn[c].result.tag = "Err"
        /\ HTTP_REQ_COUNTER = 2
        /\ HTTP_REQ_HISTOGRAM = 2

\* A flow that has not run to completion: a connection the server is still
\* working on, or a tunnel task that has not ended.
InFlight(r) == Watched(r) \/ r.tunnel \in {"spawned", "upgraded", "connected"}

\* C28: once the shutdown signal has been received no new client connection
\* is accepted, and when run() has returned every flow, an established
\* CONNECT tunnel included, has run to completion.
C28_GracefulShutdown ==
    /\ [](run = "returned" => \A c \in Conns : ~InFlight(conn[c]))
    /\ [][run # "serving" =>
            \A c \in Conns : conn[c].pc = "listen" => conn'[c].pc = "listen"]_vars

\* The current request of connection c has been given to a handler or sent
\* to the origin.
Forwarded(c) ==
    \/ Calls(c, "on_request") # <<>>
    \/ Calls(c, "client.request") # <<>>

\* C29: authentication never carries over between requests. Every request
\* handled by proxy(), a later request on a kept-alive connection included,
\* starts with flow.auth = None, and with auths non-empty it is given to a
\* handler or sent to the origin only if an authenticator returned Ok for
\* the credentials extracted from this very request.
C29_NoAuthCarriedOver ==
    \A c \in Conns :
        /\ conn[c].pc \in {"proxy", "Request::from", "auth"} => conn[c].f.auth = None
        /\ (conn[c].pc \notin {"listen", "Flow::new", "idle"} /\ auths # <<>>
                /\ Forwarded(c)) =>
               /\ conn[c].hreq.method # "CONNECT"
               /\ Extracted(c).tag = "Ok"
               /\ \E k \in 1..Len(OkCalls(c)) :
                      OkCalls(c)[k].arg = Extracted(c).credentials
               /\ conn[c].f.auth = Some(Extracted(c).credentials)

\* C29 witness: the second request on a kept-alive connection, served after
\* the first has been answered, was authenticated by its own credentials and
\* sent to the origin.
C29_Witness ==
    \E c \in Conns :
        /\ HTTP_REQ_COUNTER = 2
        /\ HTTP_REQ_HISTOGRAM = 1
        /\ auths # <<>>
        /\ Calls(c, "client.request") # <<>>
        /\ OkCalls(c) # <<>>

\* The connections accepted so far: those whose Flow::new has made its
\* fetch_add.
Accepted == {c \in Conns : HasId(c)}

\* The counter is the number of flows created so far, their ids are
\* 0 .. counter - 1, and the flow of the request a connection is serving, and
\* of every call logged for it, has the id of the connection.
IdsCounted ==
    /\ counter = Cardinality(Accepted)
    /\ {IdOf(c) : c \in Accepted} = 0..(counter - 1)
    /\ \A c \in Accepted :
           conn[c].pc \notin {"Flow::new", "idle"} =>
               /\ conn[c].f.id = IdOf(c)
               /\ \A k \in 1..Len(conn[c].log) : conn[c].log[k].flow.id = IdOf(c)

\* C30: flow ids are assigned per accepted connection, not per request. The
\* n-th accepted connection, in the order of the fetch_add and starting from
\* counter 0, gets id n - 1 and keeps it; the counter always equals the
\* number of flows created so far; a request leaves the counter alone; and
\* all requests served on one connection carry that connection's id.
C30_IdsPerConnection ==
    /\ counter = 0 /\ Accepted = {}
    /\ [][/\ IdsCounted'
          /\ \A c \in Conns :
                 /\ HasId(c) => HasId(c)' /\ IdOf(c)' = IdOf(c)
                 /\ (~HasId(c) /\ HasId(c)') =>
                        IdOf(c)' = Cardinality(Accepted) /\ counter' = counter + 1
          /\ Accepted' = Accepted => counter' = counter
       ]_vars

\* C30 witness: the second accepted connection, with id 1, is serving its
\* second request and has called a handler for it, while the first accepted
\* connection has id 0.
C30_Witness ==
    \E a, b \in Accepted :
        /\ IdOf(a) = 0
        /\ conn[b].pc \notin {"Flow::new", "idle"}
        /\ IdOf(b) = 1
        /\ HTTP_REQ_COUNTER = 2
        /\ HTTP_REQ_HISTOGRAM = 1
        /\ conn[a].pc = "idle"
        /\ Calls(b, "on_request") # <<>>
        /\ Calls(b, "on_request")[1].flow.id = 1

\* What a step of the task of a connection makes of its record r when the
\* task runs alone: the step of the sequential code at r.pc, applied to r,
\* the fixed auths and handlers, and an answer of the environment.
AloneSucc(r, env) ==
    CASE r.pc \in {"idle", "done"} -> {ServeBegin(r, q) : q \in env.requests}
      [] r.pc = "connect" -> {ConnectStep(r)}
      [] r.pc = "upgrading" -> {TunnelStep(r, ok) : ok \in env.ok}
      [] r.pc = "proxy" -> {ProxyBeginStep(r)}
      [] r.pc = "Request::from" -> {BufferRequestStep(r, ok) : ok \in env.ok}
      [] r.pc = "auth" -> {ExtractStep(r)}
      [] r.pc = "authenticate" -> {AuthenticateStep(r)}
      [] r.pc = "auth_check" -> {AuthCheckStep(r)}
      [] r.pc = "on_request" ->
            IF r.i <= Len(handlers)
            THEN {OnRequestStep(r, ForwardResult(kind, handlers[r.i], r.f, r.req)) :
                      kind \in env.forward}
            ELSE {ForwardStep(r)}
      [] r.pc = "client.request" -> {OriginStep(r, res) : res \in env.origin}
      [] r.pc = "Response::from" -> {BufferResponseStep(r, ok) : ok \in env.ok}
      [] r.pc = "on_response" ->
            IF r.i <= Len(handlers)
            THEN {OnResponseStep(r, ReverseResult(kind, handlers[r.i], r.f, r.resp)) :
                      kind \in env.reverse}
            ELSE {RespondStep(r)}
      [] r.pc = "serve_end" -> {[r EXCEPT !.pc = AfterServe(r), !.result = r.ret]}
      [] OTHER -> {}

\* A step of connection c touches no other connection, and once the
\* connection has its flow, the step leaves the id counter alone and gives
\* the record (flow.auth, current request, current response, result) that
\* the same step gives when the task runs alone. auths and handlers are
\* never written.
StepIsolated(c) ==
    conn'[c] # conn[c] =>
        /\ \A d \in Conns \ {c} : conn'[d] = conn[d]
        /\ auths' = auths /\ handlers' = handlers
        /\ conn[c].pc \notin {"listen", "Flow::new"} =>
               /\ counter' = counter
               /\ conn'[c] \in AloneSucc(conn[c], ConcEnv)

====
